---- MODULE Spec2Model ----
(***************************************************************************)
(* GAINUSDTDistributor (contracts/contracts/GAINUSDTDistributor.sol) over  *)
(* an ERC20 USDT, and the fee arithmetic of LABToken                        *)
(* (contracts/contracts/LABToken.sol).  One transaction is one step: the   *)
(* EVM runs it atomically, and a revert restores every storage slot and    *)
(* every token balance.                                                    *)
(***************************************************************************)
EXTENDS Integers, Sequences, FiniteSets, TLC

\* ------------------------------------------------------------------ bounds
NumUsers == 6
NumCallers == 2
MaxBlock == 2
MaxDecimals == 0

\* --------------------------------------------------------------- addresses
Zero == 0
Users == 1..NumUsers
creatorWallet == NumUsers + 1
flashWallet == NumUsers + 2
Distributor == NumUsers + 3
Holders == Users \cup {creatorWallet, flashWallet, Distributor}

\* --------------------------------------------------------------- constants
BPS == 10000
UPLINE_BPS == 7000
DIRECT_BPS == 1200
CREATOR_BPS == 300
MAX_SLOT == 12
ROYALTY_TOTAL_BPS == 1500
MIN_ROYALTY_DIRECTS == 4
FIRST_ROYALTY_LEVEL == 5
LAST_ROYALTY_LEVEL == 11

Levels == 1..MAX_SLOT
RoyaltyLevels == FIRST_ROYALTY_LEVEL..LAST_ROYALTY_LEVEL

ROYALTY_BP == [l \in 0..(MAX_SLOT - 1) |->
    CASE l = 5 -> 500
      [] l = 6 -> 400
      [] l = 7 -> 200
      [] l \in 8..11 -> 100
      [] OTHER -> 0]

\* The ladder in whole tokens: SLOT_PRICE[i] is SlotUnits[i] * 10 ** decimals.
SlotUnits == <<20, 25, 50, 100, 200, 400, 800, 1600, 3200, 6400, 12800, 25600>>

RECURSIVE Pow10(_)
Pow10(n) == IF n = 0 THEN 1 ELSE 10 * Pow10(n - 1)

\* floor(a * bps / BPS).  Solidity multiplies in 256 bits; the quotient and the
\* remainder of a by BPS are scaled apart here so that no intermediate value
\* leaves the model checker's integers.  Both give the same floor.
MulDivBps(a, bps) == (a \div BPS) * bps + ((a % BPS) * bps) \div BPS

VARIABLES
    tokenDecimals,        \* immutable, set by the constructor
    blockNumber,          \* block.number
    balanceOf,            \* USDT balances
    allowance,            \* USDT allowance of each user towards the distributor
    registeredAllowance,  \* user -> ApprovalRec
    referrerOf,
    childrenOf,
    userSlot,
    qualifiedDirects,
    directMaxSlot,
    last,                 \* receipt of the last slotBuy
    labFees,              \* LABToken._fees
    labBalance,           \* LABToken balances
    labPaused,            \* Pausable._paused of LABToken
    labLast,              \* receipt of the last LABToken call
    labWallets,           \* platformWallet, creatorWallet, royaltyWallet of LABToken
    labTotalSupply,       \* ERC20 totalSupply of LABToken
    labRoles,             \* AccessControl: role -> accounts holding it
    apiHits,              \* requests the rate limiter counted in this window
    apiResponse           \* the backend's answer to the last request

chainVars == <<tokenDecimals, blockNumber, balanceOf, allowance,
               registeredAllowance, referrerOf, childrenOf, userSlot,
               qualifiedDirects, directMaxSlot>>
labConfigVars == <<labWallets, labTotalSupply, labRoles>>
labVars == <<labFees, labBalance, labPaused, labLast, labConfigVars>>
apiVars == <<apiHits, apiResponse>>
vars == <<chainVars, last, labVars, apiVars>>

\* SLOT_PRICE[0] is the unused 0 the constructor pushes first.
SLOT_PRICE(slotId) ==
    IF slotId = 0 THEN 0 ELSE SlotUnits[slotId] * Pow10(tokenDecimals)

\* ------------------------------------------------------------ USDT (ERC20)
\* The balances after `amount` moves from `from` to `to`.
erc20Transfer(bal, from, to, amount) ==
    [a \in Holders |->
        bal[a] - (IF a = from THEN amount ELSE 0) + (IF a = to THEN amount ELSE 0)]

RECURSIVE applyTransfers(_, _)
applyTransfers(bal, transfers) ==
    IF transfers = <<>> THEN bal
    ELSE applyTransfers(
            erc20Transfer(bal, Distributor, Head(transfers).to, Head(transfers).amount),
            Tail(transfers))

RECURSIVE sumAmounts(_)
sumAmounts(transfers) ==
    IF transfers = <<>> THEN 0
    ELSE Head(transfers).amount + sumAmounts(Tail(transfers))

\* ------------------------------------------------------- internal helpers
\* Faulty variants of _registerReferral, one change each:
\*   "accept"    the sponsor check of line 172 never reverts;
\*   "overwrite" a different sponsor replaces the stored referrer;
\*   "recount"   `previous` is read as 0 instead of directMaxSlot;
\*   "assign"    userSlot is assigned without the comparison of line 177.
registerReferralVariant(buyer, sponsor, slotId, variant) ==
    LET currentReferrer == referrerOf[buyer]
        first == currentReferrer = Zero
        sets == first \/ (variant = "overwrite" /\ currentReferrer # sponsor)
        referrerOf2 == IF sets THEN [referrerOf EXCEPT ![buyer] = sponsor]
                       ELSE referrerOf
        childrenOf2 == IF sets THEN [childrenOf EXCEPT ![sponsor] = Append(@, buyer)]
                       ELSE childrenOf
        userSlot2 == IF slotId > userSlot[buyer] \/ variant = "assign"
                     THEN [userSlot EXCEPT ![buyer] = slotId]
                     ELSE userSlot
        previous == IF variant = "recount" THEN 0 ELSE directMaxSlot[sponsor][buyer]
        counts == referrerOf2[buyer] = sponsor /\ slotId > previous
    IN  [ reverted |-> /\ variant \notin {"accept", "overwrite"}
                       /\ ~first /\ currentReferrer # sponsor,
          referrerOf |-> referrerOf2,
          childrenOf |-> childrenOf2,
          userSlot |-> userSlot2,
          qualifiedDirects |->
              IF counts
              THEN [qualifiedDirects EXCEPT ![sponsor] =
                      [l \in Levels |->
                          IF l >= previous + 1 /\ l <= slotId THEN @[l] + 1 ELSE @[l]]]
              ELSE qualifiedDirects,
          directMaxSlot |->
              IF counts THEN [directMaxSlot EXCEPT ![sponsor][buyer] = slotId]
              ELSE directMaxSlot ]

registerReferralOverwriting(buyer, sponsor, slotId) ==
    registerReferralVariant(buyer, sponsor, slotId, "overwrite")
registerReferralAccepting(buyer, sponsor, slotId) ==
    registerReferralVariant(buyer, sponsor, slotId, "accept")
registerReferralRecounting(buyer, sponsor, slotId) ==
    registerReferralVariant(buyer, sponsor, slotId, "recount")
registerReferralAssigning(buyer, sponsor, slotId) ==
    registerReferralVariant(buyer, sponsor, slotId, "assign")

\* _registerReferral: the storage it leaves, and whether it reverts.
_registerReferral(buyer, sponsor, slotId) ==
    LET currentReferrer == referrerOf[buyer]
        first == currentReferrer = Zero
        referrerOf2 == IF first THEN [referrerOf EXCEPT ![buyer] = sponsor]
                       ELSE referrerOf
        childrenOf2 == IF first THEN [childrenOf EXCEPT ![sponsor] = Append(@, buyer)]
                       ELSE childrenOf
        userSlot2 == IF slotId > userSlot[buyer] THEN [userSlot EXCEPT ![buyer] = slotId]
                     ELSE userSlot
        previous == directMaxSlot[sponsor][buyer]
        counts == referrerOf2[buyer] = sponsor /\ slotId > previous
    IN  [ reverted |-> ~first /\ currentReferrer # sponsor,
          referrerOf |-> referrerOf2,
          childrenOf |-> childrenOf2,
          userSlot |-> userSlot2,
          qualifiedDirects |->
              IF counts
              THEN [qualifiedDirects EXCEPT ![sponsor] =
                      [l \in Levels |->
                          IF l >= previous + 1 /\ l <= slotId THEN @[l] + 1 ELSE @[l]]]
              ELSE qualifiedDirects,
          directMaxSlot |->
              IF counts THEN [directMaxSlot EXCEPT ![sponsor][buyer] = slotId]
              ELSE directMaxSlot ]

_resolveUplineRecipient(children, referrer, sponsor) ==
    LET pos == Len(children[sponsor])
    IN  IF pos = 1 \/ pos = 3 THEN referrer[sponsor] ELSE sponsor

\* The while loop of _payRoyalty for one level.  The loop has no bound of its
\* own: on a referrer chain that closes on itself without a qualifying address
\* it runs until the gas is spent.  A chain of distinct users is at most
\* NumUsers long, so a walk still going after NumUsers hops is on a cycle.
OutOfGas == -1
RECURSIVE royaltyWalk(_, _, _, _, _, _)
royaltyWalk(walker, level, referrer, slot, directs, hops) ==
    IF walker = Zero THEN Zero
    ELSE IF slot[walker] >= level /\ directs[walker][level] >= MIN_ROYALTY_DIRECTS
         THEN walker
    ELSE IF hops = 0 THEN OutOfGas
    ELSE royaltyWalk(referrer[walker], level, referrer, slot, directs, hops - 1)

\* A faulty _payRoyalty whose walk does not look at the walker's own slot.
payRoyaltyAnySlot(sponsor, referrer, slot, directs) ==
    [level \in RoyaltyLevels |->
        royaltyWalk(sponsor, level, referrer, [u \in Users |-> MAX_SLOT],
                    directs, NumUsers)]

\* A faulty _payRoyalty whose walk does not count the walker's directs.
payRoyaltyAnyDirects(sponsor, referrer, slot, directs) ==
    [level \in RoyaltyLevels |->
        royaltyWalk(sponsor, level, referrer, slot,
                    [u \in Users |-> [l \in Levels |-> MIN_ROYALTY_DIRECTS]],
                    NumUsers)]

\* _payRoyalty: the beneficiary of each level (Zero: nobody qualifies).
_payRoyalty(sponsor, referrer, slot, directs) ==
    [level \in RoyaltyLevels |->
        royaltyWalk(sponsor, level, referrer, slot, directs, NumUsers)]

\* A faulty _payRoyalty that pays every share twice over.
royaltyTransfersDoubled(beneficiary, price) ==
    LET F[level \in (FIRST_ROYALTY_LEVEL - 1)..LAST_ROYALTY_LEVEL] ==
            IF level < FIRST_ROYALTY_LEVEL THEN <<>>
            ELSE IF (ROYALTY_BP[level] = 0) \/ (beneficiary[level] \notin Holders)
                 THEN F[level - 1]
            ELSE Append(F[level - 1],
                        [to |-> beneficiary[level],
                         amount |-> MulDivBps(price, 2 * ROYALTY_BP[level]),
                         kind |-> "royalty", level |-> level])
    IN  F[LAST_ROYALTY_LEVEL]

royaltyTransfers(beneficiary, price) ==
    LET F[level \in (FIRST_ROYALTY_LEVEL - 1)..LAST_ROYALTY_LEVEL] ==
            IF level < FIRST_ROYALTY_LEVEL THEN <<>>
            ELSE IF (ROYALTY_BP[level] = 0) \/ (beneficiary[level] \notin Holders)
                 THEN F[level - 1]
            ELSE Append(F[level - 1],
                        [to |-> beneficiary[level],
                         amount |-> MulDivBps(price, ROYALTY_BP[level]),
                         kind |-> "royalty", level |-> level])
    IN  F[LAST_ROYALTY_LEVEL]

\* -------------------------------------------------------------- slotBuy
\* A faulty snapshot check that accepts a snapshot of the current block.
snapshotCheckSameBlock(rec, price) ==
    IF rec.allowance < price THEN <<"AllowanceTooLow", 134>>
    ELSE IF rec.blockNum > blockNumber THEN <<"MustWaitNextBlock", 135>>
    ELSE <<"ok", 0>>

\* The snapshot checks of slotBuy (lines 133-135): the revert they raise, as
\* <<reason, source line>>, or <<"ok", 0>>.
snapshotCheck(rec, price) ==
    IF rec.allowance < price THEN <<"AllowanceTooLow", 134>>
    ELSE IF rec.blockNum >= blockNumber THEN <<"MustWaitNextBlock", 135>>
    ELSE <<"ok", 0>>

\* What slotBuy(slotId, sponsor) sent by `buyer` does in the current state:
\* the revert reason or "ok", the storage and balances it would commit, and
\* the transfers it makes out of the distributor, in the order of the code.
slotBuyCall(buyer, slotId, sponsor) ==
    LET price == SLOT_PRICE(slotId)
        rec == registeredAllowance[buyer]
        reg == _registerReferral(buyer, sponsor, slotId)
        uplineAmt == MulDivBps(price, UPLINE_BPS)
        directAmt == MulDivBps(price, DIRECT_BPS)
        creatorAmt == MulDivBps(price, CREATOR_BPS)
        upline == _resolveUplineRecipient(reg.childrenOf, reg.referrerOf, sponsor)
        beneficiary == _payRoyalty(sponsor, reg.referrerOf, reg.userSlot,
                                   reg.qualifiedDirects)
        royalties == royaltyTransfers(beneficiary, price)
        royaltyPaid == sumAmounts(royalties)
        expectedRoyalty == MulDivBps(price, ROYALTY_TOTAL_BPS)
        leftovers == expectedRoyalty - royaltyPaid
        transfers ==
            <<[to |-> sponsor, amount |-> directAmt, kind |-> "direct", level |-> 0],
              [to |-> creatorWallet, amount |-> creatorAmt, kind |-> "creator", level |-> 0],
              [to |-> IF upline # Zero THEN upline ELSE flashWallet,
               amount |-> uplineAmt, kind |-> "upline", level |-> 0]>>
            \o royalties
            \o (IF leftovers > 0
                THEN <<[to |-> flashWallet, amount |-> leftovers,
                        kind |-> "leftovers", level |-> 0]>>
                ELSE <<>>)
        pulled == erc20Transfer(balanceOf, buyer, Distributor, price)
        \* the first statement that reverts, as <<reason, source line>>
        outcome ==
            IF slotId = 0 \/ slotId > MAX_SLOT THEN <<"SlotOutOfBounds", 127>>
            ELSE IF sponsor = Zero THEN <<"InvalidSponsor", 128>>
            ELSE IF snapshotCheck(rec, price)[1] # "ok" THEN snapshotCheck(rec, price)
            ELSE IF balanceOf[buyer] < price THEN <<"InsufficientBalance", 137>>
            ELSE IF allowance[buyer] < price
                 THEN <<"ERC20InsufficientAllowance", 139>>
            ELSE IF reg.reverted THEN <<"InvalidSponsor", 174>>
            ELSE IF \E level \in RoyaltyLevels : beneficiary[level] = OutOfGas
                 THEN <<"OutOfGas", 209>>
            ELSE IF royaltyPaid > expectedRoyalty THEN <<"Panic", 159>>
            ELSE IF sumAmounts(transfers) > pulled[Distributor]
                 THEN <<"ERC20InsufficientBalance", 161>>
            ELSE <<"ok", 0>>
        status == outcome[1]
    IN  [ status |-> status,
          site |-> outcome[2],
          price |-> IF slotId \in Levels THEN price ELSE 0,
          transfers |-> IF status = "ok" THEN transfers ELSE <<>>,
          balanceOf |-> IF status = "ok" THEN applyTransfers(pulled, transfers)
                        ELSE balanceOf,
          allowance |-> IF status = "ok" THEN [allowance EXCEPT ![buyer] = @ - price]
                        ELSE allowance,
          referrerOf |-> IF status = "ok" THEN reg.referrerOf ELSE referrerOf,
          childrenOf |-> IF status = "ok" THEN reg.childrenOf ELSE childrenOf,
          userSlot |-> IF status = "ok" THEN reg.userSlot ELSE userSlot,
          qualifiedDirects |-> IF status = "ok" THEN reg.qualifiedDirects
                               ELSE qualifiedDirects,
          directMaxSlot |-> IF status = "ok" THEN reg.directMaxSlot
                            ELSE directMaxSlot ]

\* The receipt of a slotBuy: the SlotPurchased event and the transfers of a
\* successful call, or the revert reason and the line that raised it.
Purchased(buyer, slotId, sponsor, price, transfers) ==
    [status |-> "ok", site |-> 0, buyer |-> buyer, slotId |-> slotId,
     sponsor |-> sponsor, price |-> price, transfers |-> transfers]
Reverted(status, site) ==
    [status |-> status, site |-> site, buyer |-> Zero, slotId |-> 0,
     sponsor |-> Zero, price |-> 0, transfers |-> <<>>]

\* ----------------------------------------------------------------- actions
\* USDT.approve(distributor, amount) by user u.
Approve(u, amount) ==
    /\ allowance' = [allowance EXCEPT ![u] = amount]
    /\ UNCHANGED <<tokenDecimals, blockNumber, balanceOf, registeredAllowance,
                   referrerOf, childrenOf, userSlot, qualifiedDirects,
                   directMaxSlot, last, labVars, apiVars>>

registerApproval(u) ==
    LET allow == allowance[u]
    IN  /\ allow # 0
        /\ registeredAllowance' =
              [registeredAllowance EXCEPT
                  ![u] = [allowance |-> allow, blockNum |-> blockNumber]]
        /\ UNCHANGED <<tokenDecimals, blockNumber, balanceOf, allowance,
                       referrerOf, childrenOf, userSlot, qualifiedDirects,
                       directMaxSlot, last, labVars, apiVars>>

\* A faulty slotBuy that takes the price off the buyer's registered snapshot.
slotBuyConsumingSnapshot(buyer, slotId, sponsor) ==
    LET r == slotBuyCall(buyer, slotId, sponsor)
    IN  /\ balanceOf' = r.balanceOf
        /\ allowance' = r.allowance
        /\ referrerOf' = r.referrerOf
        /\ childrenOf' = r.childrenOf
        /\ userSlot' = r.userSlot
        /\ qualifiedDirects' = r.qualifiedDirects
        /\ directMaxSlot' = r.directMaxSlot
        /\ last' = IF r.status = "ok"
                   THEN Purchased(buyer, slotId, sponsor, r.price, r.transfers)
                   ELSE Reverted(r.status, r.site)
        /\ registeredAllowance' =
              IF r.status = "ok"
              THEN [registeredAllowance EXCEPT ![buyer].allowance = @ - r.price]
              ELSE registeredAllowance
        /\ UNCHANGED <<tokenDecimals, blockNumber, labVars, apiVars>>

slotBuy(buyer, slotId, sponsor) ==
    LET r == slotBuyCall(buyer, slotId, sponsor)
    IN  /\ balanceOf' = r.balanceOf
        /\ allowance' = r.allowance
        /\ referrerOf' = r.referrerOf
        /\ childrenOf' = r.childrenOf
        /\ userSlot' = r.userSlot
        /\ qualifiedDirects' = r.qualifiedDirects
        /\ directMaxSlot' = r.directMaxSlot
        /\ last' = IF r.status = "ok"
                   THEN Purchased(buyer, slotId, sponsor, r.price, r.transfers)
                   ELSE Reverted(r.status, r.site)
        /\ UNCHANGED <<tokenDecimals, blockNumber, registeredAllowance, labVars, apiVars>>

\* USDT.transfer(to, amount) by `from`.
usdtTransfer(from, to, amount) ==
    /\ balanceOf[from] >= amount
    /\ balanceOf' = erc20Transfer(balanceOf, from, to, amount)
    /\ UNCHANGED <<tokenDecimals, blockNumber, allowance, registeredAllowance,
                   referrerOf, childrenOf, userSlot, qualifiedDirects,
                   directMaxSlot, last, labVars, apiVars>>

\* The chain moves on to the next block.
MineBlock ==
    /\ blockNumber < MaxBlock
    /\ blockNumber' = blockNumber + 1
    /\ UNCHANGED <<tokenDecimals, balanceOf, allowance, registeredAllowance,
                   referrerOf, childrenOf, userSlot, qualifiedDirects,
                   directMaxSlot, last, labVars, apiVars>>

\* ---------------------------------------------------------------- LABToken
MAX_FEE_BPS == 1000
BPS_DENOMINATOR == 10000

FeeTypes == {"SlotBuy", "DirectCommission", "RoyaltyTransfer",
             "SuperRoyaltyTransfer", "CreatorTransfer", "FlashTransfer"}

\* The accounts of a LABToken deployment: the admin the constructor grants
\* every role and mints the supply to, a user without roles, and the three
\* fee wallets handed to the constructor.
LabAdmin == 1
LabUser == 2
platformWallet == 3
labCreatorWallet == 4
royaltyWallet == 5
LabAccounts == {LabAdmin, LabUser, platformWallet, labCreatorWallet, royaltyWallet}
LabSupply == 1005

\* DEFAULT_ADMIN_ROLE, FEE_MANAGER_ROLE and FLASH_ROLE are all granted to
\* admin_ by the constructor; DEFAULT_ADMIN_ROLE is the admin role of each.
LabRoles == {"DEFAULT_ADMIN_ROLE", "FEE_MANAGER_ROLE", "FLASH_ROLE"}
\* A faulty hasRole that is satisfied by any role of the account.
hasSomeRole(role, account) == \E held \in LabRoles : account \in labRoles[held]

hasRole(role, account) == account \in labRoles[role]

FeeWallets(p, c, r) ==
    [platformWallet |-> p, creatorWallet |-> c, royaltyWallet |-> r]

FeeConfig(p, c, r, f) ==
    [platformFeeBps |-> p, creatorFeeBps |-> c, royaltyFeeBps |-> r,
     referrerFeeBps |-> f]

\* A faulty _validateFees without the check of the combined fees.
validateFeesEach(config) ==
    IF config.platformFeeBps > MAX_FEE_BPS THEN "Platform fee too high"
    ELSE IF config.creatorFeeBps > MAX_FEE_BPS THEN "Creator fee too high"
    ELSE IF config.royaltyFeeBps > MAX_FEE_BPS THEN "Royalty fee too high"
    ELSE IF config.referrerFeeBps > MAX_FEE_BPS THEN "Referrer fee too high"
    ELSE "ok"

\* _validateFees: the reason of the require that fails, or "ok".
_validateFees(config) ==
    IF config.platformFeeBps > MAX_FEE_BPS THEN "Platform fee too high"
    ELSE IF config.creatorFeeBps > MAX_FEE_BPS THEN "Creator fee too high"
    ELSE IF config.royaltyFeeBps > MAX_FEE_BPS THEN "Royalty fee too high"
    ELSE IF config.referrerFeeBps > MAX_FEE_BPS THEN "Referrer fee too high"
    ELSE IF config.platformFeeBps + config.creatorFeeBps
              + config.royaltyFeeBps + config.referrerFeeBps > MAX_FEE_BPS
         THEN "Combined fees too high"
    ELSE "ok"

\* A faulty _applyFees that charges the referrer fee without looking at the
\* referrer.
feeBreakdownAlwaysReferrer(amount, config, referrer) ==
    LET platformFee == (amount * config.platformFeeBps) \div BPS_DENOMINATOR
        creatorFee == (amount * config.creatorFeeBps) \div BPS_DENOMINATOR
        royaltyFee == (amount * config.royaltyFeeBps) \div BPS_DENOMINATOR
        referrerFee == (amount * config.referrerFeeBps) \div BPS_DENOMINATOR
        totalFees == platformFee + creatorFee + royaltyFee + referrerFee
        netAmount == IF totalFees <= amount THEN amount - totalFees ELSE 0
    IN  [ status |-> IF _validateFees(config) # "ok" THEN _validateFees(config)
                     ELSE IF totalFees > amount THEN "Fees exceed amount"
                     ELSE IF netAmount = 0 THEN "Net amount zero"
                     ELSE "ok",
          netAmount |-> netAmount,
          platformFee |-> platformFee,
          creatorFee |-> creatorFee,
          royaltyFee |-> royaltyFee,
          referrerFee |-> referrerFee ]

\* The arithmetic of _applyFees (lines 372-386): the breakdown, and the reason
\* of the require that fails or "ok".
feeBreakdown(amount, config, referrer) ==
    LET platformFee == (amount * config.platformFeeBps) \div BPS_DENOMINATOR
        creatorFee == (amount * config.creatorFeeBps) \div BPS_DENOMINATOR
        royaltyFee == (amount * config.royaltyFeeBps) \div BPS_DENOMINATOR
        referrerFee == IF referrer # Zero
                       THEN (amount * config.referrerFeeBps) \div BPS_DENOMINATOR
                       ELSE 0
        totalFees == platformFee + creatorFee + royaltyFee + referrerFee
        netAmount == IF totalFees <= amount THEN amount - totalFees ELSE 0
    IN  [ status |-> IF _validateFees(config) # "ok" THEN _validateFees(config)
                     ELSE IF totalFees > amount THEN "Fees exceed amount"
                     ELSE IF netAmount = 0 THEN "Net amount zero"
                     ELSE "ok",
          netAmount |-> netAmount,
          platformFee |-> platformFee,
          creatorFee |-> creatorFee,
          royaltyFee |-> royaltyFee,
          referrerFee |-> referrerFee ]

\* A faulty ERC20._transfer that credits the recipient twice.
labTransferCreditingTwice(bal, from, to, value) ==
    [a \in LabAccounts |->
        bal[a] - (IF a = from THEN value ELSE 0) + (IF a = to THEN 2 * value ELSE 0)]

\* ERC20._transfer of LABToken on the balances `bal`.
labTransfer(bal, from, to, value) ==
    [a \in LabAccounts |->
        bal[a] - (IF a = from THEN value ELSE 0) + (IF a = to THEN value ELSE 0)]

\* The fee transfers of _applyFees (lines 388-399), fees of 0 skipped.
feeTransfers(breakdown, referrer) ==
    (IF breakdown.platformFee > 0
     THEN <<[to |-> labWallets.platformWallet, value |-> breakdown.platformFee]>>
     ELSE <<>>)
    \o (IF breakdown.creatorFee > 0
        THEN <<[to |-> labWallets.creatorWallet, value |-> breakdown.creatorFee]>>
        ELSE <<>>)
    \o (IF breakdown.royaltyFee > 0
        THEN <<[to |-> labWallets.royaltyWallet, value |-> breakdown.royaltyFee]>>
        ELSE <<>>)
    \o (IF breakdown.referrerFee > 0
        THEN <<[to |-> referrer, value |-> breakdown.referrerFee]>> ELSE <<>>)

RECURSIVE labTransferAll(_, _, _)
labTransferAll(bal, from, transfers) ==
    IF transfers = <<>> THEN bal
    ELSE labTransferAll(
            labTransfer(bal, from, Head(transfers).to, Head(transfers).value),
            from, Tail(transfers))

RECURSIVE sumValues(_)
sumValues(transfers) ==
    IF transfers = <<>> THEN 0
    ELSE Head(transfers).value + sumValues(Tail(transfers))

\* A faulty set of flows in which royaltyTransfer forgets to drop the creator
\* fee.
flowConfigKeepingCreator(feeType) ==
    LET c == labFees[feeType]
    IN  CASE feeType = "SlotBuy" -> c
          [] feeType \in {"DirectCommission", "RoyaltyTransfer",
                          "SuperRoyaltyTransfer"} -> [c EXCEPT !.referrerFeeBps = 0]
          [] feeType = "CreatorTransfer" ->
                [c EXCEPT !.referrerFeeBps = 0, !.royaltyFeeBps = 0]
          [] feeType = "FlashTransfer" ->
                [c EXCEPT !.creatorFeeBps = 0, !.royaltyFeeBps = 0,
                          !.referrerFeeBps = 0]

\* The FeeConfig each flow hands to _applyFees: the stored configuration of
\* its fee type with the components the flow does not charge set to 0.
flowConfig(feeType) ==
    LET c == labFees[feeType]
    IN  CASE feeType = "SlotBuy" -> c
          [] feeType = "DirectCommission" -> [c EXCEPT !.referrerFeeBps = 0]
          [] feeType = "RoyaltyTransfer" ->
                [c EXCEPT !.referrerFeeBps = 0, !.creatorFeeBps = 0]
          [] feeType = "SuperRoyaltyTransfer" -> [c EXCEPT !.referrerFeeBps = 0]
          [] feeType = "CreatorTransfer" ->
                [c EXCEPT !.referrerFeeBps = 0, !.royaltyFeeBps = 0]
          [] feeType = "FlashTransfer" ->
                [c EXCEPT !.creatorFeeBps = 0, !.royaltyFeeBps = 0,
                          !.referrerFeeBps = 0]

\* A payee list of superRoyaltyTransfer: payees[i] with basisPoints[i].
RECURSIVE sumBps(_)
sumBps(basisPoints) ==
    IF basisPoints = <<>> THEN 0 ELSE Head(basisPoints) + sumBps(Tail(basisPoints))

\* A faulty payout loop that rounds each payout up.
payoutTransfersRoundingUp(netAmount, payees, basisPoints) ==
    LET F[i \in 0..Len(payees)] ==
            IF i = 0 THEN <<>>
            ELSE LET payout == (netAmount * basisPoints[i] + BPS_DENOMINATOR - 1)
                                  \div BPS_DENOMINATOR
                 IN  IF payout > 0
                     THEN Append(F[i - 1], [to |-> payees[i], value |-> payout])
                     ELSE F[i - 1]
    IN  F[Len(payees)]

payoutTransfers(netAmount, payees, basisPoints) ==
    LET F[i \in 0..Len(payees)] ==
            IF i = 0 THEN <<>>
            ELSE LET payout == (netAmount * basisPoints[i]) \div BPS_DENOMINATOR
                 IN  IF payout > 0
                     THEN Append(F[i - 1], [to |-> payees[i], value |-> payout])
                     ELSE F[i - 1]
    IN  F[Len(payees)]

\* One of the six flows (slotBuy, directCommission, royaltyTransfer,
\* superRoyaltyTransfer, creatorTransfer, flashTransfer) sent by `caller`:
\* the revert reason or "ok", the breakdown and the balances it would commit.
\* `referrer` is the argument of slotBuy and address(0) in the other flows;
\* payees and basisPoints are those of superRoyaltyTransfer, empty elsewhere.
flowCall(feeType, caller, recipient, amount, referrer, payees, basisPoints) ==
    LET b == feeBreakdown(amount, flowConfig(feeType), referrer)
        fees == feeTransfers(b, referrer)
        payouts == IF feeType = "SuperRoyaltyTransfer"
                   THEN payoutTransfers(b.netAmount, payees, basisPoints)
                   ELSE <<>>
        remaining == b.netAmount - sumValues(payouts)
        transfers ==
            fees \o payouts \o
            (IF feeType = "SuperRoyaltyTransfer" /\ remaining = 0 THEN <<>>
             ELSE <<[to |-> recipient, value |-> remaining]>>)
        status ==
            IF labPaused THEN "EnforcedPause"
            ELSE IF feeType = "FlashTransfer" /\ ~hasRole("FLASH_ROLE", caller)
                 THEN "Missing flash role"
            ELSE IF recipient = Zero
                 THEN (IF feeType = "DirectCommission" THEN "Seller is zero"
                       ELSE "Recipient is zero")
            ELSE IF amount = 0 THEN "Amount is zero"
            ELSE IF Len(payees) # Len(basisPoints) THEN "Mismatched arrays"
            ELSE IF \E i \in 1..Len(payees) : payees[i] = Zero THEN "Payee zero"
            ELSE IF sumBps(basisPoints) > BPS_DENOMINATOR THEN "Payee bps overflow"
            ELSE IF b.status # "ok" THEN b.status
            ELSE IF remaining < 0 THEN "Panic"
            ELSE IF sumValues(transfers) > labBalance[caller]
                 THEN "ERC20InsufficientBalance"
            ELSE "ok"
    IN  [ status |-> status,
          breakdown |-> b,
          transfers |-> IF status = "ok" THEN transfers ELSE <<>>,
          balance |-> IF status = "ok" THEN labTransferAll(labBalance, caller, transfers)
                      ELSE labBalance ]

LabReceipt(call, status, amount, referrer, breakdown) ==
    [call |-> call, status |-> status, amount |-> amount, referrer |-> referrer,
     netAmount |-> breakdown.netAmount, platformFee |-> breakdown.platformFee,
     creatorFee |-> breakdown.creatorFee, royaltyFee |-> breakdown.royaltyFee,
     referrerFee |-> breakdown.referrerFee]
NoBreakdown ==
    [netAmount |-> 0, platformFee |-> 0, creatorFee |-> 0, royaltyFee |-> 0,
     referrerFee |-> 0]
LabReverted(call, status) == LabReceipt(call, status, 0, Zero, NoBreakdown)

\* A faulty setFees that stores the configuration without validating it.
setFeesCallUnvalidated(caller, feeType, config) ==
    LET status == IF ~hasRole("FEE_MANAGER_ROLE", caller)
                  THEN "AccessControlUnauthorizedAccount" ELSE "ok"
    IN  [ status |-> status,
          fees |-> IF status = "ok" THEN [labFees EXCEPT ![feeType] = config]
                   ELSE labFees ]

\* What setFees(feeType, config) sent by `caller` does: the revert reason or
\* "ok", and the configurations it leaves stored.
setFeesCall(caller, feeType, config) ==
    LET status == IF ~hasRole("FEE_MANAGER_ROLE", caller)
                  THEN "AccessControlUnauthorizedAccount"
                  ELSE _validateFees(config)
    IN  [ status |-> status,
          fees |-> IF status = "ok" THEN [labFees EXCEPT ![feeType] = config]
                   ELSE labFees ]

setFees(caller, feeType, config) ==
    LET r == setFeesCall(caller, feeType, config)
    IN  /\ labFees' = r.fees
        /\ labLast' = LabReverted("setFees", r.status)
        /\ UNCHANGED <<labBalance, labPaused, labConfigVars, chainVars, last, apiVars>>

labFlow(feeType, caller, recipient, amount, referrer, payees, basisPoints) ==
    LET r == flowCall(feeType, caller, recipient, amount, referrer, payees,
                      basisPoints)
    IN  /\ labBalance' = r.balance
        /\ labLast' = IF r.status = "ok"
                      THEN LabReceipt(feeType, "ok", amount, referrer, r.breakdown)
                      ELSE LabReverted(feeType, r.status)
        /\ UNCHANGED <<labFees, labPaused, labConfigVars, chainVars, last, apiVars>>

pause(caller) ==
    LET status == IF ~hasRole("DEFAULT_ADMIN_ROLE", caller)
                  THEN "AccessControlUnauthorizedAccount"
                  ELSE IF labPaused THEN "EnforcedPause" ELSE "ok"
    IN  /\ labPaused' = IF status = "ok" THEN TRUE ELSE labPaused
        /\ labLast' = LabReverted("pause", status)
        /\ UNCHANGED <<labFees, labBalance, labConfigVars, chainVars, last, apiVars>>

unpause(caller) ==
    LET status == IF ~hasRole("DEFAULT_ADMIN_ROLE", caller)
                  THEN "AccessControlUnauthorizedAccount"
                  ELSE IF ~labPaused THEN "ExpectedPause" ELSE "ok"
    IN  /\ labPaused' = IF status = "ok" THEN FALSE ELSE labPaused
        /\ labLast' = LabReverted("unpause", status)
        /\ UNCHANGED <<labFees, labBalance, labConfigVars, chainVars, last, apiVars>>

\* A faulty setFeeWallets that does not look at the creator wallet.
setFeeWalletsCallAnyCreator(caller, platformWallet_, creatorWallet_, royaltyWallet_) ==
    LET status ==
            IF ~hasRole("FEE_MANAGER_ROLE", caller)
            THEN "AccessControlUnauthorizedAccount"
            ELSE IF platformWallet_ = Zero THEN "Platform wallet is zero"
            ELSE IF royaltyWallet_ = Zero THEN "Royalty wallet is zero"
            ELSE "ok"
    IN  [ status |-> status,
          wallets |-> IF status = "ok"
                      THEN FeeWallets(platformWallet_, creatorWallet_, royaltyWallet_)
                      ELSE labWallets ]

\* A faulty setFeeWallets without the role check.
setFeeWalletsCallOpen(caller, platformWallet_, creatorWallet_, royaltyWallet_) ==
    LET status == IF platformWallet_ = Zero THEN "Platform wallet is zero"
                  ELSE IF creatorWallet_ = Zero THEN "Creator wallet is zero"
                  ELSE IF royaltyWallet_ = Zero THEN "Royalty wallet is zero"
                  ELSE "ok"
    IN  [ status |-> status,
          wallets |-> IF status = "ok"
                      THEN FeeWallets(platformWallet_, creatorWallet_, royaltyWallet_)
                      ELSE labWallets ]

\* What setFeeWallets sent by `caller` does: the revert reason or "ok", and
\* the wallets it leaves stored.
setFeeWalletsCall(caller, platformWallet_, creatorWallet_, royaltyWallet_) ==
    LET status ==
            IF ~hasRole("FEE_MANAGER_ROLE", caller)
            THEN "AccessControlUnauthorizedAccount"
            ELSE IF platformWallet_ = Zero THEN "Platform wallet is zero"
            ELSE IF creatorWallet_ = Zero THEN "Creator wallet is zero"
            ELSE IF royaltyWallet_ = Zero THEN "Royalty wallet is zero"
            ELSE "ok"
    IN  [ status |-> status,
          wallets |-> IF status = "ok"
                      THEN FeeWallets(platformWallet_, creatorWallet_, royaltyWallet_)
                      ELSE labWallets ]

setFeeWallets(caller, platformWallet_, creatorWallet_, royaltyWallet_) ==
    LET r == setFeeWalletsCall(caller, platformWallet_, creatorWallet_,
                               royaltyWallet_)
    IN  /\ labWallets' = r.wallets
        /\ labLast' = LabReverted("setFeeWallets", r.status)
        /\ UNCHANGED <<labFees, labBalance, labPaused, labTotalSupply, labRoles,
                       chainVars, last, apiVars>>

\* ERC20._update for a mint (from = address(0)) or a burn (to = address(0)):
\* the balances and the total supply after it.
labCredit(bal, to, value) == [bal EXCEPT ![to] = @ + value]
labDebit(bal, from, value) == [bal EXCEPT ![from] = @ - value]

\* A faulty mint that does not stop while the token is paused.
mintCallWhilePaused(caller, to, amount) ==
    LET status == IF ~hasRole("DEFAULT_ADMIN_ROLE", caller)
                  THEN "AccessControlUnauthorizedAccount"
                  ELSE IF to = Zero THEN "Mint to zero"
                  ELSE "ok"
    IN  [ status |-> status,
          balance |-> IF status = "ok" THEN labCredit(labBalance, to, amount)
                      ELSE labBalance,
          totalSupply |-> IF status = "ok" THEN labTotalSupply + amount
                          ELSE labTotalSupply ]

\* mint(to, amount) sent by `caller`.
mintCall(caller, to, amount) ==
    LET status == IF ~hasRole("DEFAULT_ADMIN_ROLE", caller)
                  THEN "AccessControlUnauthorizedAccount"
                  ELSE IF to = Zero THEN "Mint to zero"
                  ELSE IF labPaused THEN "EnforcedPause"
                  ELSE "ok"
    IN  [ status |-> status,
          balance |-> IF status = "ok" THEN labCredit(labBalance, to, amount)
                      ELSE labBalance,
          totalSupply |-> IF status = "ok" THEN labTotalSupply + amount
                          ELSE labTotalSupply ]

\* _burn(account, amount) of ERC20, as burnFrom and burn reach it.
burnOf(account, amount) ==
    LET status == IF account = Zero THEN "ERC20InvalidSender"
                  ELSE IF labPaused THEN "EnforcedPause"
                  ELSE IF labBalance[account] < amount
                       THEN "ERC20InsufficientBalance"
                  ELSE "ok"
    IN  [ status |-> status,
          balance |-> IF status = "ok" THEN labDebit(labBalance, account, amount)
                      ELSE labBalance,
          totalSupply |-> IF status = "ok" THEN labTotalSupply - amount
                          ELSE labTotalSupply ]

\* burnFrom(account, amount) sent by `caller`: the override of LABToken, which
\* asks for the admin role and spends no allowance.
burnFromCall(caller, account, amount) ==
    IF ~hasRole("DEFAULT_ADMIN_ROLE", caller)
    THEN [ status |-> "AccessControlUnauthorizedAccount",
           balance |-> labBalance, totalSupply |-> labTotalSupply ]
    ELSE burnOf(account, amount)

\* burn(value) sent by `caller`: ERC20Burnable.burn, which LABToken inherits
\* and does not override; it burns the caller's own tokens.
burnCall(caller, value) == burnOf(caller, value)

\* transfer(to, value) of ERC20 sent by `caller`.
transferCall(caller, to, value) ==
    LET status == IF to = Zero THEN "ERC20InvalidReceiver"
                  ELSE IF labPaused THEN "EnforcedPause"
                  ELSE IF labBalance[caller] < value THEN "ERC20InsufficientBalance"
                  ELSE "ok"
    IN  [ status |-> status,
          balance |-> IF status = "ok" THEN labTransfer(labBalance, caller, to, value)
                      ELSE labBalance,
          totalSupply |-> labTotalSupply ]

\* A call that moves the supply or the balances: mint, burnFrom, burn, transfer.
supplyCall(name, caller, account, amount) ==
    CASE name = "mint" -> mintCall(caller, account, amount)
      [] name = "burnFrom" -> burnFromCall(caller, account, amount)
      [] name = "burn" -> burnCall(caller, amount)
      [] name = "transfer" -> transferCall(caller, account, amount)

labSupplyStep(name, caller, account, amount) ==
    LET r == supplyCall(name, caller, account, amount)
    IN  /\ labBalance' = r.balance
        /\ labTotalSupply' = r.totalSupply
        /\ labLast' = LabReverted(name, r.status)
        /\ UNCHANGED <<labFees, labPaused, labWallets, labRoles, chainVars, last,
                       apiVars>>

mint(caller, to, amount) == labSupplyStep("mint", caller, to, amount)
burnFrom(caller, account, amount) == labSupplyStep("burnFrom", caller, account, amount)
burn(caller, value) == labSupplyStep("burn", caller, caller, value)
transfer(caller, to, value) == labSupplyStep("transfer", caller, to, value)

\* grantRole and revokeRole of AccessControl sent by `caller`: the admin role
\* of every role is DEFAULT_ADMIN_ROLE.
roleCall(caller, role, account, grant) ==
    LET status == IF ~hasRole("DEFAULT_ADMIN_ROLE", caller)
                  THEN "AccessControlUnauthorizedAccount" ELSE "ok"
    IN  [ status |-> status,
          roles |-> IF status # "ok" THEN labRoles
                    ELSE IF grant THEN [labRoles EXCEPT ![role] = @ \cup {account}]
                    ELSE [labRoles EXCEPT ![role] = @ \ {account}] ]

grantRole(caller, role, account) ==
    LET r == roleCall(caller, role, account, TRUE)
    IN  /\ labRoles' = r.roles
        /\ labLast' = LabReverted("grantRole", r.status)
        /\ UNCHANGED <<labFees, labBalance, labPaused, labWallets, labTotalSupply,
                       chainVars, last, apiVars>>

revokeRole(caller, role, account) ==
    LET r == roleCall(caller, role, account, FALSE)
    IN  /\ labRoles' = r.roles
        /\ labLast' = LabReverted("revokeRole", r.status)
        /\ UNCHANGED <<labFees, labBalance, labPaused, labWallets, labTotalSupply,
                       chainVars, last, apiVars>>

\* The state after the LABToken constructor: no fees configured, the supply
\* minted to the admin, not paused.
\* The constructor: the revert reason or "ok", and the wallets, roles and
\* balances of the deployed token.
labConstructor(initialSupply_, platformWallet_, creatorWallet_, royaltyWallet_, admin_) ==
    [ status |-> IF platformWallet_ = Zero THEN "Platform wallet is zero"
                 ELSE IF creatorWallet_ = Zero THEN "Creator wallet is zero"
                 ELSE IF royaltyWallet_ = Zero THEN "Royalty wallet is zero"
                 ELSE IF admin_ = Zero THEN "Admin is zero"
                 ELSE "ok",
      wallets |-> FeeWallets(platformWallet_, creatorWallet_, royaltyWallet_),
      roles |-> [role \in LabRoles |-> {admin_}],
      balance |-> [a \in LabAccounts |-> IF a = admin_ THEN initialSupply_ ELSE 0],
      totalSupply |-> initialSupply_ ]

LabConstructed ==
    /\ labFees = [t \in FeeTypes |-> FeeConfig(0, 0, 0, 0)]
    /\ labPaused = FALSE
    /\ \E deployed \in {labConstructor(LabSupply, platformWallet, labCreatorWallet,
                                       royaltyWallet, LabAdmin)} :
          /\ deployed.status = "ok"
          /\ labLast = LabReverted("deploy", deployed.status)
          /\ labBalance = deployed.balance
          /\ labWallets = deployed.wallets
          /\ labTotalSupply = deployed.totalSupply
          /\ labRoles = deployed.roles

\* ----------------------------------------------------------------- backend
\* The Express app: rate limiter, then the route's middleware chain
\* (requireApiKey on the admin routes, validateBody, the handler calling the
\* service), then errorHandler for whatever was thrown or passed to next.
RATE_LIMIT_MAX == 100
AdminRoutes == {"/set-fees", "/set-fee-wallets", "/flash-transfer"}
OpenRoutes == {"/slot-buy"}
apiKeyAdmin == "changeme"
NoHeader == "undefined"

ParamRoutes == {"/user/:address", "/balance/:address"}

\* What a middleware or handler throws or passes to next.  `kind` tells an
\* HttpError from another Error, from an object that is no Error and from any
\* other value; `code` is the value's code property, "" when it has none.
HttpError(status, message) ==
    [kind |-> "HttpError", status |-> status, code |-> "", message |-> message]
ContinueNext == [kind |-> "next", status |-> 0, code |-> "", message |-> ""]

\* What a service method throws: an ethers error with a code, the service's
\* own HttpError(500), another Error, or a value that is no Error.
thrown(outcome) ==
    CASE outcome \in {"ACTION_REJECTED", "CALL_EXCEPTION"} ->
            [kind |-> "Error", status |-> 0, code |-> outcome,
             message |-> "execution reverted"]
      [] outcome = "HttpError" -> HttpError(500, "LABToken address is missing")
      [] outcome = "Error" ->
            [kind |-> "Error", status |-> 0, code |-> "", message |-> "failed"]
      [] outcome = "value" ->
            [kind |-> "value", status |-> 0, code |-> "", message |-> ""]

Response(status, error) == [status |-> status, error |-> error]

\* A faulty errorHandler whose revert branch does not return.
errorHandlerFallingThrough(err) ==
    IF err.kind = "HttpError" THEN <<Response(err.status, err.message)>>
    ELSE (IF err.kind # "value" /\ err.code \in {"ACTION_REJECTED", "CALL_EXCEPTION"}
          THEN <<Response(400, err.message)>> ELSE <<>>)
         \o (IF err.kind = "Error" THEN <<Response(500, err.message)>>
             ELSE <<Response(500, "Unknown error")>>)

\* errorHandler: the responses it sends for an error, in order.
errorHandler(err) ==
    IF err.kind = "HttpError" THEN <<Response(err.status, err.message)>>
    ELSE IF err.kind # "value" /\ err.code \in {"ACTION_REJECTED", "CALL_EXCEPTION"}
         THEN <<Response(400, err.message)>>
    ELSE IF err.kind = "Error" THEN <<Response(500, err.message)>>
    ELSE <<Response(500, "Unknown error")>>

\* A faulty requireApiKey that rejects only a header that is present and wrong.
requireApiKeyWhenPresent(apiKey) ==
    IF apiKey # NoHeader /\ apiKey # "" /\ apiKey # apiKeyAdmin
    THEN HttpError(401, "Unauthorized")
    ELSE ContinueNext

\* requireApiKey: the error it throws, or "next".
requireApiKey(apiKey) ==
    IF apiKey = NoHeader \/ apiKey = "" \/ apiKey # apiKeyAdmin
    THEN HttpError(401, "Unauthorized")
    ELSE ContinueNext

\* validateBody: the error it passes to next, or "next".  The repository
\* carries two versions of the middleware: one wraps the ZodError in an
\* HttpError(400), the other passes the ZodError, an Error without a code
\* property, on as it is.
validateBody(bodyValid, wraps) ==
    IF bodyValid THEN ContinueNext
    ELSE IF wraps THEN HttpError(400, "Invalid request body")
    ELSE [kind |-> "Error", status |-> 0, code |-> "", message |-> "ZodError"]

\* The handler of /user/:address and /balance/:address: safeParse of the
\* address, HttpError(400) when it fails.
parseAddress(addressValid) ==
    IF addressValid THEN ContinueNext ELSE HttpError(400, "Invalid address")

\* The answer to one request: the responses sent, the status of the first,
\* and whether validateBody and the service method ran.  `inputValid` says
\* whether the body passes the route's schema (the address its pattern, on
\* the routes with an address parameter); `outcome` is what the service
\* method does: "ok", or what it throws.
respond(route, apiKey, inputValid, wraps, outcome) ==
    LET auth == IF route \in AdminRoutes THEN requireApiKey(apiKey)
                ELSE ContinueNext
        checked == IF route \in ParamRoutes THEN parseAddress(inputValid)
                   ELSE validateBody(inputValid, wraps)
        answer(responses, validated, called) ==
            [route |-> route, apiKey |-> apiKey, inputValid |-> inputValid,
             status |-> responses[1].status, error |-> responses[1].error,
             sent |-> Len(responses),
             validated |-> validated, called |-> called]
    IN  IF apiHits + 1 > RATE_LIMIT_MAX
        THEN answer(<<Response(429, "Too many requests")>>, FALSE, FALSE)
        ELSE IF auth.kind # "next" THEN answer(errorHandler(auth), FALSE, FALSE)
        ELSE IF checked.kind # "next"
             THEN answer(errorHandler(checked), route \notin ParamRoutes, FALSE)
        ELSE IF outcome # "ok"
             THEN answer(errorHandler(thrown(outcome)), route \notin ParamRoutes, TRUE)
        ELSE answer(<<Response(200, "")>>, route \notin ParamRoutes, TRUE)

\* A faulty feeConfigSchema without the refinement on the combined fees.
feeConfigSchemaEachOnly(config) ==
    IF \E f \in DOMAIN config : config[f] < 0
    THEN "Number must be greater than or equal to 0"
    ELSE IF \E f \in DOMAIN config : config[f] > 1000
         THEN "Each fee must be <= 1000 bps"
    ELSE "ok"

\* feeConfigSchema of the backend, on integer components: the message of the
\* first issue, or "ok".
feeConfigSchema(config) ==
    IF \E f \in DOMAIN config : config[f] < 0
    THEN "Number must be greater than or equal to 0"
    ELSE IF config.platformFeeBps + config.creatorFeeBps + config.royaltyFeeBps
              + config.referrerFeeBps > 1000
         THEN "Combined fees must be <= 1000 bps"
    ELSE IF \E f \in DOMAIN config : config[f] > 1000
         THEN "Each fee must be <= 1000 bps"
    ELSE "ok"

\* setFees as the contract sees the configuration the service hands it: a
\* component that does not fit the uint16 field of FeeConfig cannot be
\* encoded and the call is refused; otherwise _validateFees decides.
UINT16_MAX == 2^16 - 1
setFeesEncoded(config) ==
    IF \E f \in DOMAIN config : config[f] > UINT16_MAX \/ config[f] < 0
    THEN "value out-of-bounds"
    ELSE _validateFees(config)

\* One request arrives and is answered.  Hits past the limit are all answered
\* alike, so the count stops one past RATE_LIMIT_MAX.
Request(route, apiKey, inputValid, wraps, outcome) ==
    /\ apiHits <= RATE_LIMIT_MAX
    /\ apiHits' = apiHits + 1
    /\ apiResponse' = respond(route, apiKey, inputValid, wraps, outcome)
    /\ UNCHANGED <<chainVars, last, labVars>>

\* The window of the rate limiter (windowMs) ends.
WindowReset ==
    /\ apiHits > 0
    /\ apiHits' = 0
    /\ UNCHANGED <<apiResponse, chainVars, last, labVars>>

ApiStarted ==
    /\ apiHits = 0
    /\ apiResponse = [route |-> "", apiKey |-> NoHeader, inputValid |-> TRUE,
                      status |-> 0, error |-> "", sent |-> 0,
                      validated |-> FALSE, called |-> FALSE]

\* ------------------------------------------------------------ environments
\* Who sends what.  Callers are the users that send transactions; any user can
\* be named as sponsor.
Callers == 1..NumCallers
SlotIds == {0, 1, 2, 13}
Sponsors == 0..(NumCallers + 1)
ApproveAmounts == {SLOT_PRICE(s) : s \in SlotIds \cap Levels}

Next ==
    \/ \E u \in Callers, amount \in ApproveAmounts : Approve(u, amount)
    \/ \E u \in Callers : registerApproval(u)
    \/ \E buyer \in Callers, slotId \in SlotIds, sponsor \in Sponsors :
          slotBuy(buyer, slotId, sponsor)
    \/ MineBlock

\* A sponsor and just enough directs to qualify for a royalty: the callers
\* name user 1 or the last user (who never buys) as sponsor, at royalty slots.
RoyaltyCallers == 1..(MIN_ROYALTY_DIRECTS + 1)
RoyaltySlotIds == {LAST_ROYALTY_LEVEL}
RoyaltySponsors == {1, NumUsers}

\* The last user, who never buys, may send the distributor some USDT: once,
\* so that the distributor holds DonatedAmount or nothing.
DonatedAmount == 7
NextRoyalty ==
    \/ \E buyer \in RoyaltyCallers, slotId \in RoyaltySlotIds,
          sponsor \in RoyaltySponsors :
          slotBuy(buyer, slotId, sponsor)
    \/ /\ balanceOf[Distributor] = 0
       /\ usdtTransfer(NumUsers, Distributor, DonatedAmount)

\* The state after the constructor, every user holding `funds` and user 1
\* `more` on top (the test fixture funds its sponsor twice as much).
Constructed(funds, more) ==
    /\ tokenDecimals \in 0..MaxDecimals
    /\ blockNumber = 1
    /\ balanceOf = [a \in Holders |->
                      IF a = 1 THEN funds + more
                      ELSE IF a \in Users THEN funds ELSE 0]
    /\ allowance = [u \in Users |-> 0]
    /\ registeredAllowance = [u \in Users |-> [allowance |-> 0, blockNum |-> 0]]
    /\ referrerOf = [u \in Users |-> Zero]
    /\ childrenOf = [u \in Users |-> <<>>]
    /\ userSlot = [u \in Users |-> 0]
    /\ qualifiedDirects = [u \in Users |-> [l \in Levels |-> 0]]
    /\ directMaxSlot = [s \in Users |-> [u \in Users |-> 0]]
    /\ last = Reverted("none", 0)
    /\ LabConstructed
    /\ ApiStarted

\* Every user can pay for slot 2, user 1 for slot 1 as well.
Init == Constructed(SLOT_PRICE(2), SLOT_PRICE(1))

\* Block 2 of the same deployment: in block 1 every user approved the price of
\* slot 11 and called registerApproval (the test helper buySlot's first steps).
InitRoyalty ==
    /\ tokenDecimals \in 0..MaxDecimals
    /\ blockNumber = 2
    /\ balanceOf = [a \in Holders |->
                      IF a \in Users THEN SLOT_PRICE(LAST_ROYALTY_LEVEL) ELSE 0]
    /\ allowance = [u \in Users |-> SLOT_PRICE(LAST_ROYALTY_LEVEL)]
    /\ registeredAllowance =
          [u \in Users |-> [allowance |-> SLOT_PRICE(LAST_ROYALTY_LEVEL),
                            blockNum |-> 1]]
    /\ referrerOf = [u \in Users |-> Zero]
    /\ childrenOf = [u \in Users |-> <<>>]
    /\ userSlot = [u \in Users |-> 0]
    /\ qualifiedDirects = [u \in Users |-> [l \in Levels |-> 0]]
    /\ directMaxSlot = [s \in Users |-> [u \in Users |-> 0]]
    /\ last = Reverted("none", 0)
    /\ LabConstructed
    /\ ApiStarted

\* The LABToken callers: the admin and the user send flows of LabAmounts to
\* the user and set one of LabConfigs, or for slotBuy one of SlotBuyConfigs
\* as well.
LabCallers == {LabAdmin, LabUser}
LabAmounts == {0, 1005}
LabConfigs == {FeeConfig(100, 200, 300, 400), FeeConfig(1001, 0, 0, 0),
               FeeConfig(400, 400, 400, 0)}
SlotBuyConfigs == {FeeConfig(1000, 0, 0, 0), FeeConfig(1, 1, 1, 997)}
SingleFlows == FeeTypes \ {"SuperRoyaltyTransfer"}
LabPayees == {<<<<>>, <<>>>>,
              <<<<LabUser, royaltyWallet>>, <<3333, 3333>>>>,
              <<<<LabUser>>, <<10001>>>>}

NextLab ==
    \/ \E caller \in LabCallers, feeType \in FeeTypes :
          \E config \in LabConfigs \cup
                (IF feeType = "SlotBuy" THEN SlotBuyConfigs ELSE {}) :
             setFees(caller, feeType, config)
    \/ \E feeType \in SingleFlows, caller \in LabCallers,
          recipient \in {Zero, LabUser}, amount \in LabAmounts :
          \E referrer \in (IF feeType = "SlotBuy" THEN {Zero, LabUser} ELSE {Zero}) :
             labFlow(feeType, caller, recipient, amount, referrer, <<>>, <<>>)
    \/ \E caller \in LabCallers, recipient \in {Zero, LabUser},
          amount \in LabAmounts, p \in LabPayees :
          labFlow("SuperRoyaltyTransfer", caller, recipient, amount, Zero,
                  p[1], p[2])
    \/ \E caller \in LabCallers : pause(caller)
    \/ \E caller \in LabCallers : unpause(caller)

\* Roles: the admin and the user grant and revoke roles of the user, set the
\* FlashTransfer fees and the fee wallets, send flashTransfer, pause and unpause.
RoleConfigs == {FeeConfig(100, 0, 0, 0), FeeConfig(1001, 0, 0, 0)}
WalletChoices == {<<platformWallet, labCreatorWallet, royaltyWallet>>,
                  <<LabUser, labCreatorWallet, royaltyWallet>>,
                  <<Zero, labCreatorWallet, royaltyWallet>>,
                  <<platformWallet, labCreatorWallet, Zero>>}
NextRoles ==
    \/ \E caller \in LabCallers, role \in LabRoles : grantRole(caller, role, LabUser)
    \/ \E caller \in LabCallers, role \in LabRoles : revokeRole(caller, role, LabUser)
    \/ \E caller \in LabCallers, config \in RoleConfigs :
          setFees(caller, "FlashTransfer", config)
    \/ \E caller \in LabCallers, w \in WalletChoices :
          setFeeWallets(caller, w[1], w[2], w[3])
    \/ \E caller \in LabCallers, to \in {Zero, LabUser}, amount \in LabAmounts :
          labFlow("FlashTransfer", caller, to, amount, Zero, <<>>, <<>>)
    \/ \E caller \in LabCallers : pause(caller)
    \/ \E caller \in LabCallers : unpause(caller)

\* Supply: the admin and the user mint, burn and transfer SupplyAmounts, pause
\* and unpause, and send the six flows; the admin role of the user is granted
\* and revoked.  Minting stops at MaxLabSupply.
SupplyAmounts == {500}
MaxLabSupply == 2005
NextSupply ==
    \/ \E caller \in LabCallers, to \in {Zero, LabUser}, amount \in SupplyAmounts :
          /\ labTotalSupply + amount <= MaxLabSupply
          /\ mint(caller, to, amount)
    \/ \E caller \in LabCallers, account \in LabCallers, amount \in SupplyAmounts :
          burnFrom(caller, account, amount)
    \/ \E caller \in LabCallers, amount \in SupplyAmounts : burn(caller, amount)
    \/ \E caller \in LabCallers, to \in {Zero} \cup LabCallers,
          amount \in SupplyAmounts : transfer(caller, to, amount)
    \/ \E caller \in LabCallers : pause(caller)
    \/ \E caller \in LabCallers : unpause(caller)
    \/ \E feeType \in FeeTypes, caller \in LabCallers, amount \in SupplyAmounts :
          labFlow(feeType, caller, LabUser, amount, Zero, <<>>, <<>>)
    \/ \E caller \in LabCallers : grantRole(caller, "DEFAULT_ADMIN_ROLE", LabUser)
    \/ \E caller \in LabCallers : revokeRole(caller, "DEFAULT_ADMIN_ROLE", LabUser)

\* The backend's clients: requests to the admin routes and to /slot-buy, with
\* no X-API-Key header, an empty one, a wrong one or the admin key.
ApiKeys == {NoHeader, "", "guess", apiKeyAdmin}
ServiceOutcomes ==
    {"ok", "CALL_EXCEPTION", "ACTION_REJECTED", "HttpError", "Error", "value"}
NextApi ==
    \/ \E route \in AdminRoutes \cup OpenRoutes \cup ParamRoutes,
          apiKey \in ApiKeys, inputValid \in BOOLEAN, wraps \in BOOLEAN,
          outcome \in ServiceOutcomes :
          Request(route, apiKey, inputValid, wraps, outcome)
    \/ WindowReset

Spec == Init /\ [][Next]_vars
SpecRoyalty == InitRoyalty /\ [][NextRoyalty]_vars
SpecLab == Init /\ [][NextLab]_vars
SpecRoles == Init /\ [][NextRoles]_vars
SpecSupply == Init /\ [][NextSupply]_vars
SpecApi == Init /\ [][NextApi]_vars

\* ------------------------------------------------------------------ claims
\* A step that is a successful slotBuy: the receipt names its arguments.
PurchaseStep ==
    /\ last'.status = "ok"
    /\ slotBuy(last'.buyer, last'.slotId, last'.sponsor)

\* The checks of slotBuy ahead of _registerReferral (lines 127-139) all pass.
ReachesReferral(buyer, slotId, sponsor) ==
    /\ slotId \in Levels
    /\ sponsor # Zero
    /\ registeredAllowance[buyer].allowance >= SLOT_PRICE(slotId)
    /\ registeredAllowance[buyer].blockNum < blockNumber
    /\ balanceOf[buyer] >= SLOT_PRICE(slotId)
    /\ allowance[buyer] >= SLOT_PRICE(slotId)

RECURSIVE reachesZero(_, _)
reachesZero(u, hops) ==
    IF u = Zero THEN TRUE
    ELSE IF hops = 0 THEN FALSE
    ELSE reachesZero(referrerOf[u], hops - 1)

\* C1: the referral graph is a forest: following referrerOf from any user
\* reaches the zero address (within NumUsers hops, there being NumUsers users),
\* so no user is their own referrer or ancestor.
C1_Forest == \A u \in Users : reachesZero(u, NumUsers)

\* C2: a referrer, once set, never changes; referrerOf[u] changes only in u's
\* own successful slotBuy, from zero to the sponsor argument of that purchase.
C2_ReferrerSetOnce ==
    [][ /\ \A u \in Users : referrerOf[u] # Zero => referrerOf'[u] = referrerOf[u]
        /\ \A u \in Users : referrerOf'[u] # referrerOf[u] =>
              /\ PurchaseStep
              /\ last'.buyer = u
              /\ referrerOf'[u] = last'.sponsor
        /\ PurchaseStep => referrerOf'[last'.buyer] = last'.sponsor ]_vars

\* C2 witness: a user bought twice under the sponsor of the first purchase.
C2_Witness ==
    /\ last.status = "ok"
    /\ referrerOf[last.buyer] = last.sponsor
    /\ last.slotId < userSlot[last.buyer]

\* C3: slotBuy by a buyer who has a referrer, with another sponsor, never
\* succeeds and changes no balance and no storage; when it gets as far as the
\* sponsor check it reverts with InvalidSponsor.
C3_OtherSponsorReverts ==
    \A buyer \in Users, slotId \in SlotIds, sponsor \in Users \cup {Zero} :
        (referrerOf[buyer] # Zero /\ sponsor # referrerOf[buyer]) =>
            LET r == slotBuyCall(buyer, slotId, sponsor)
            IN  /\ r.status # "ok"
                /\ ReachesReferral(buyer, slotId, sponsor) =>
                      r.status = "InvalidSponsor"
                /\ r.balanceOf = balanceOf
                /\ r.allowance = allowance
                /\ r.referrerOf = referrerOf
                /\ r.userSlot = userSlot
                /\ r.qualifiedDirects = qualifiedDirects
                /\ r.childrenOf = childrenOf
                /\ r.directMaxSlot = directMaxSlot

\* C3 witness: a slotBuy was reverted by the sponsor check of
\* _registerReferral (line 174), which only a buyer with another referrer reaches.
C3_Witness == last.status = "InvalidSponsor" /\ last.site = 174

\* The position of a direct among its sponsor's children (0: not a child).
PositionOf(direct, sponsor) ==
    LET at == {i \in 1..Len(childrenOf[sponsor]) : childrenOf[sponsor][i] = direct}
    IN  IF at = {} THEN 0 ELSE CHOOSE i \in at : TRUE

UplineTransfer(receipt) ==
    CHOOSE i \in 1..Len(receipt.transfers) : receipt.transfers[i].kind = "upline"

\* C4: the upline share of a successful slotBuy goes to the sponsor's referrer
\* (the flash wallet when there is none) when the buyer is the sponsor's 1st or
\* 3rd direct, and to the sponsor otherwise, on first and on later purchases.
C4_SpilloverByDirect ==
    last.status = "ok" =>
        LET pos == PositionOf(last.buyer, last.sponsor)
            spill == IF referrerOf[last.sponsor] # Zero
                     THEN referrerOf[last.sponsor] ELSE flashWallet
        IN  last.transfers[UplineTransfer(last)].to =
                (IF pos = 1 \/ pos = 3 THEN spill ELSE last.sponsor)

\* The first address on the referrer chain from `a` with at least 4 qualified
\* directs at `level` (and, with ownSlot, a slot of its own at that level);
\* Zero when the chain has none.
RECURSIVE firstOnChain(_, _, _, _)
firstOnChain(a, level, ownSlot, hops) ==
    IF a = Zero \/ hops = 0 THEN Zero
    ELSE IF /\ qualifiedDirects[a][level] >= MIN_ROYALTY_DIRECTS
            /\ ownSlot => userSlot[a] >= level
         THEN a
    ELSE firstOnChain(referrerOf[a], level, ownSlot, hops - 1)

TransfersOf(receipt, kind) ==
    {receipt.transfers[i] : i \in {j \in 1..Len(receipt.transfers) :
                                      receipt.transfers[j].kind = kind}}

RECURSIVE SumAmountsIn(_)
SumAmountsIn(S) ==
    IF S = {} THEN 0
    ELSE LET t == CHOOSE x \in S : TRUE IN t.amount + SumAmountsIn(S \ {t})

\* The royalty routing of a receipt: every level's share goes to
\* firstOnChain(sponsor, level, ownSlot) when there is one, and what is not
\* paid out of the 15% goes to the flash wallet.
RoyaltyRouted(receipt, ownSlot) ==
    LET share(level) == (receipt.price * ROYALTY_BP[level]) \div BPS
        payee(level) == firstOnChain(receipt.sponsor, level, ownSlot, NumUsers + 1)
        paid == TransfersOf(receipt, "royalty")
        left == TransfersOf(receipt, "leftovers")
        unpaid == {level \in RoyaltyLevels : payee(level) = Zero}
        unpaidUpTo[level \in (FIRST_ROYALTY_LEVEL - 1)..LAST_ROYALTY_LEVEL] ==
            IF level < FIRST_ROYALTY_LEVEL THEN 0
            ELSE unpaidUpTo[level - 1] + (IF level \in unpaid THEN share(level) ELSE 0)
    IN  /\ \A level \in RoyaltyLevels \ unpaid :
              \E t \in paid : /\ t.level = level
                              /\ t.to = payee(level)
                              /\ t.amount = share(level)
        /\ \A t \in paid : t.level \notin unpaid
        /\ Cardinality(paid) = Cardinality(RoyaltyLevels \ unpaid)
        /\ \A t \in left : t.to = flashWallet
        /\ SumAmountsIn(left) >= unpaidUpTo[LAST_ROYALTY_LEVEL]
        /\ SumAmountsIn(left) + SumAmountsIn(paid)
              = (receipt.price * ROYALTY_TOTAL_BPS) \div BPS

C6_NoCustody ==
    /\ balanceOf[Distributor] = 0
    /\ last.status = "ok" => sumAmounts(last.transfers) = last.price

\* C7: slotBuy succeeds only on a snapshot registered in an earlier block for
\* at least the price; with a valid slot and sponsor, a user who never
\* registered gets AllowanceTooLow, and a user whose snapshot is of the current
\* block is refused, with MustWaitNextBlock when the snapshot covers the price.
C7_SnapshotFromEarlierBlock ==
    \A buyer \in Callers, slotId \in SlotIds, sponsor \in Sponsors :
        LET r == slotBuyCall(buyer, slotId, sponsor)
            rec == registeredAllowance[buyer]
            valid == slotId \in Levels /\ sponsor # Zero
        IN  /\ r.status = "ok" =>
                  /\ rec.blockNum >= 1
                  /\ rec.blockNum < blockNumber
                  /\ rec.allowance >= SLOT_PRICE(slotId)
            /\ (valid /\ rec.blockNum = 0) => r.status = "AllowanceTooLow"
            /\ (valid /\ rec.blockNum = blockNumber) =>
                  /\ r.status \in {"AllowanceTooLow", "MustWaitNextBlock"}
                  /\ rec.allowance >= SLOT_PRICE(slotId) =>
                        r.status = "MustWaitNextBlock"

\* C7 witness: a slotBuy in the block of the buyer's registerApproval was
\* reverted with MustWaitNextBlock.
C7_Witness ==
    /\ last.status = "MustWaitNextBlock"
    /\ \E u \in Callers : registeredAllowance[u].blockNum = blockNumber

DirectsAt(sponsor, level) ==
    {u \in Users : referrerOf[u] = sponsor /\ userSlot[u] >= level}

\* C8: qualifiedDirects[s][l] is the number of users with referrer s and slot
\* at least l; it never decreases, and a purchase taking the buyer from slot a
\* to slot b adds one at its sponsor for the levels a+1..b and nothing else.
C8_QualifiedDirectsCount ==
    /\ [](\A s \in Users, l \in Levels :
            qualifiedDirects[s][l] = Cardinality(DirectsAt(s, l)))
    /\ [][ /\ \A s \in Users, l \in Levels :
                qualifiedDirects'[s][l] >= qualifiedDirects[s][l]
           /\ PurchaseStep =>
                \A s \in Users, l \in Levels :
                    qualifiedDirects'[s][l] = qualifiedDirects[s][l] +
                        (IF /\ s = last'.sponsor
                            /\ l > userSlot[last'.buyer]
                            /\ l <= last'.slotId
                         THEN 1 ELSE 0) ]_vars

\* C8 witness: user 1 bought slot 1 and then slot 2 under the same sponsor,
\* who counts one direct at each of the two levels.
C8_Witness ==
    /\ last.status = "ok"
    /\ last.buyer = 1
    /\ last.slotId = 2
    /\ balanceOf[1] = 0
    /\ childrenOf[1] = <<>>
    /\ qualifiedDirects[last.sponsor][1] = 1
    /\ qualifiedDirects[last.sponsor][2] = 1

Higher(a, b) == IF a >= b THEN a ELSE b

\* C9: userSlot stays within 0..12 and never decreases; a successful slotBuy
\* leaves the buyer at the higher of the old slot and the slot bought; slot
\* ids 0 and above 12 revert with SlotOutOfBounds.
C9_SlotMonotone ==
    /\ [](\A u \in Users : userSlot[u] \in 0..MAX_SLOT)
    /\ [](\A buyer \in Callers, slotId \in SlotIds \ Levels, sponsor \in Sponsors :
            slotBuyCall(buyer, slotId, sponsor).status = "SlotOutOfBounds")
    /\ [][ /\ \A u \in Users : userSlot'[u] >= userSlot[u]
           /\ PurchaseStep =>
                \A u \in Users :
                    userSlot'[u] = IF u = last'.buyer
                                   THEN Higher(userSlot[u], last'.slotId)
                                   ELSE userSlot[u] ]_vars

\* C9 witness: a user at slot 2 bought slot 1 and stayed at slot 2.
C9_Witness ==
    /\ last.status = "ok"
    /\ last.slotId = 1
    /\ userSlot[last.buyer] = 2

\* Amounts the fee arithmetic is checked on: every amount up to
\* MaxCheckedAmount, and amounts around the fee denominator.
MaxCheckedAmount == 25
CheckedAmounts ==
    (1..MaxCheckedAmount)
        \cup {99, 100, 101, 999, 1005, 9999, 10000, 10001, 19999, 123456}

\* C10: _applyFees, on the configuration of any flow (the stored configuration
\* of any fee type, which setFees validated, with the components the flow
\* drops set to 0), with or without a referrer, on any positive amount: it
\* does not revert, fees are at most 10% of the amount and so at most the
\* amount, and netAmount = amount - fees is positive.
C10_FeesWithinAmount ==
    \A feeType \in FeeTypes, referrer \in {Zero, LabUser}, amount \in CheckedAmounts :
        LET b == feeBreakdown(amount, flowConfig(feeType), referrer)
            fees == b.platformFee + b.creatorFee + b.royaltyFee + b.referrerFee
        IN  /\ _validateFees(labFees[feeType]) = "ok"
            /\ b.status = "ok"
            /\ fees <= amount
            /\ fees * 10 <= amount
            /\ b.netAmount = amount - fees
            /\ b.netAmount > 0

\* C10 witness: a slotBuy of LABToken with a referrer charged all four fees,
\* 10% of the amount together.
C10_Witness ==
    /\ labLast.call = "SlotBuy"
    /\ labLast.status = "ok"
    /\ labLast.referrer # Zero
    /\ labLast.platformFee > 0 /\ labLast.creatorFee > 0
    /\ labLast.royaltyFee > 0 /\ labLast.referrerFee > 0
    /\ labLast.netAmount = labLast.amount - 100

\* A configuration within both caps: every component at most 1000 bps, and
\* the four together at most 1000 bps.
WithinCaps(config) ==
    /\ config.platformFeeBps <= 1000
    /\ config.creatorFeeBps <= 1000
    /\ config.royaltyFeeBps <= 1000
    /\ config.referrerFeeBps <= 1000
    /\ config.platformFeeBps + config.creatorFeeBps + config.royaltyFeeBps
          + config.referrerFeeBps <= 1000

\* Configurations handed to setFees: those the callers send, and one breaking
\* each cap alone.
CapConfigs ==
    LabConfigs \cup SlotBuyConfigs \cup
        {FeeConfig(0, 1001, 0, 0), FeeConfig(0, 0, 1001, 0),
         FeeConfig(0, 0, 0, 1001), FeeConfig(1000, 1, 0, 0),
         FeeConfig(250, 250, 250, 251), FeeConfig(250, 250, 250, 250)}

\* C11: the stored configuration of each fee type is within both caps; a
\* setFees whose configuration breaks a cap reverts and leaves the stored
\* configurations unchanged, whoever sends it.
C11_StoredFeesCapped ==
    /\ \A feeType \in FeeTypes : WithinCaps(labFees[feeType])
    /\ \A caller \in LabCallers, feeType \in FeeTypes, config \in CapConfigs :
          LET r == setFeesCall(caller, feeType, config)
          IN  /\ ~WithinCaps(config) => (r.status # "ok" /\ r.fees = labFees)
              /\ r.status = "ok" => WithinCaps(r.fees[feeType])

\* C11 witness: the fee manager's setFees was refused for the combined fees
\* while a configuration at the cap of 1000 bps is stored.
C11_Witness ==
    /\ labLast.call = "setFees"
    /\ labLast.status = "Combined fees too high"
    /\ \E feeType \in FeeTypes :
          labFees[feeType].platformFeeBps + labFees[feeType].creatorFeeBps
            + labFees[feeType].royaltyFeeBps + labFees[feeType].referrerFeeBps = 1000

\* The account holds the role.
Holds(role, account) == account \in labRoles[role]

SupplyCalls == {"mint", "burnFrom", "burn", "transfer"}

\* C12: while LABToken is paused the six flows, mint, burnFrom and plain
\* transfers (and burn) revert whatever their arguments, and no step changes a
\* balance or the total supply; when it is not paused the same calls, sent by
\* an account with the role and the balance they need, succeed.
C12_PausedFreezesBalances ==
    /\ [](labPaused =>
            /\ \A feeType \in FeeTypes, caller \in LabCallers,
                  recipient \in {Zero, LabUser}, amount \in {0} \cup SupplyAmounts,
                  p \in LabPayees :
                  LET r == flowCall(feeType, caller, recipient, amount, Zero,
                                    p[1], p[2])
                  IN  r.status # "ok" /\ r.balance = labBalance
            /\ \A name \in SupplyCalls, caller \in LabCallers,
                  account \in {Zero} \cup LabCallers, amount \in {0} \cup SupplyAmounts :
                  LET r == supplyCall(name, caller, account, amount)
                  IN  /\ r.status # "ok"
                      /\ r.balance = labBalance
                      /\ r.totalSupply = labTotalSupply)
    /\ [](~labPaused =>
            \A caller \in LabCallers, amount \in SupplyAmounts :
                /\ labBalance[caller] >= amount =>
                      /\ transferCall(caller, LabUser, amount).status = "ok"
                      /\ \A feeType \in FeeTypes :
                            (feeType = "FlashTransfer" => Holds("FLASH_ROLE", caller))
                               => flowCall(feeType, caller, LabUser, amount, Zero,
                                           <<>>, <<>>).status = "ok"
                /\ Holds("DEFAULT_ADMIN_ROLE", caller) =>
                      /\ mintCall(caller, LabUser, amount).status = "ok"
                      /\ labBalance[LabUser] >= amount =>
                            burnFromCall(caller, LabUser, amount).status = "ok")
    /\ [][labPaused =>
            (labBalance' = labBalance /\ labTotalSupply' = labTotalSupply)]_vars

\* C12 witness: a mint by an admin was refused because the token is paused,
\* after tokens had been minted and moved.
C12_Witness ==
    /\ labPaused
    /\ labLast.call = "mint"
    /\ labLast.status = "EnforcedPause"
    /\ labTotalSupply > LabSupply
    /\ labBalance[LabUser] > 0

\* C13: setFees and setFeeWallets succeed only for a caller holding
\* FEE_MANAGER_ROLE; sent by any other account they revert and leave the fee
\* configurations and the three wallets as they were.
C13_FeeManagerOnly ==
    \A caller \in LabCallers :
        /\ \A feeType \in FeeTypes, config \in CapConfigs :
              LET r == setFeesCall(caller, feeType, config)
              IN  /\ r.status = "ok" => Holds("FEE_MANAGER_ROLE", caller)
                  /\ ~Holds("FEE_MANAGER_ROLE", caller) =>
                        (r.status # "ok" /\ r.fees = labFees)
        /\ \A w \in WalletChoices :
              LET r == setFeeWalletsCall(caller, w[1], w[2], w[3])
              IN  /\ r.status = "ok" => Holds("FEE_MANAGER_ROLE", caller)
                  /\ ~Holds("FEE_MANAGER_ROLE", caller) =>
                        (r.status # "ok" /\ r.wallets = labWallets)

\* C13 witness: setFeeWallets by the user, who holds the admin and the flash
\* role but not FEE_MANAGER_ROLE, was refused after the wallets had been changed.
C13_Witness ==
    /\ labLast.call = "setFeeWallets"
    /\ labLast.status = "AccessControlUnauthorizedAccount"
    /\ LabUser \in labRoles["DEFAULT_ADMIN_ROLE"] \cap labRoles["FLASH_ROLE"]
    /\ LabUser \notin labRoles["FEE_MANAGER_ROLE"]
    /\ labWallets.platformWallet = LabUser

\* C14: flashTransfer succeeds only for a caller holding FLASH_ROLE; sent by
\* any other account it changes no balance and, the token not being paused
\* (a paused token refuses every flow before the role is looked at), reverts
\* with "Missing flash role" whatever its arguments.
C14_FlashRoleOnly ==
    \A caller \in LabCallers, to \in {Zero, LabUser}, amount \in LabAmounts :
        LET r == flowCall("FlashTransfer", caller, to, amount, Zero, <<>>, <<>>)
        IN  /\ r.status = "ok" => Holds("FLASH_ROLE", caller)
            /\ ~Holds("FLASH_ROLE", caller) =>
                  /\ r.status # "ok"
                  /\ r.balance = labBalance
                  /\ ~labPaused => r.status = "Missing flash role"

\* C14 witness: flashTransfer by the user, who holds FEE_MANAGER_ROLE only and
\* has the tokens, was refused for the missing role.
C14_Witness ==
    /\ labLast.call = "FlashTransfer"
    /\ labLast.status = "Missing flash role"
    /\ LabUser \in labRoles["FEE_MANAGER_ROLE"]
    /\ LabUser \notin labRoles["FLASH_ROLE"]
    /\ labBalance[LabUser] >= 1005

\* C15: mint and burnFrom succeed only for a caller holding
\* DEFAULT_ADMIN_ROLE, and no call of an account without that role changes
\* the total supply.
C15_SupplyAdminGated ==
    \A name \in SupplyCalls, caller \in LabCallers, account \in {Zero} \cup LabCallers,
       amount \in SupplyAmounts :
        LET r == supplyCall(name, caller, account, amount)
        IN  ~Holds("DEFAULT_ADMIN_ROLE", caller) =>
                /\ r.totalSupply = labTotalSupply
                /\ name \in {"mint", "burnFrom"} => r.status # "ok"

\* floor(amount * bps / 10000).
FeeOf(amount, bps) == (amount * bps) \div 10000

RECURSIVE SumCredits(_)
SumCredits(credits) ==
    IF credits = {} THEN 0
    ELSE LET c == CHOOSE x \in credits : TRUE
         IN  c.value + SumCredits(credits \ {c})

Credit(tag, to, value) == [tag |-> tag, to |-> to, value |-> value]

\* The call r sent by `caller` moved exactly the credits: every account gained
\* what was credited to it, and the caller paid all of it.
MovedExactly(r, caller, credits) ==
    \A a \in LabAccounts :
        r.balance[a] - labBalance[a] =
            SumCredits({c \in credits : c.to = a})
              - (IF a = caller THEN SumCredits(credits) ELSE 0)

FlowAmounts == {1, 99, 1005}

\* C16: a successful directCommission(seller, amount), whatever configuration
\* is stored for DirectCommission, pays the platform fee to platformWallet,
\* the creator fee to creatorWallet and amount minus those two to the seller,
\* and nothing to anyone else.
C16_DirectCommissionFees ==
    \A caller \in LabCallers, seller \in {LabUser}, amount \in FlowAmounts :
        LET r == flowCall("DirectCommission", caller, seller, amount, Zero,
                          <<>>, <<>>)
            config == labFees["DirectCommission"]
            platformFee == FeeOf(amount, config.platformFeeBps)
            creatorFee == FeeOf(amount, config.creatorFeeBps)
        IN  r.status = "ok" =>
                MovedExactly(r, caller,
                    {Credit("platform", labWallets.platformWallet, platformFee),
                     Credit("creator", labWallets.creatorWallet, creatorFee),
                     Credit("net", seller, amount - platformFee - creatorFee)})

\* C17: whatever is stored for the other components of their fee type, a
\* successful royaltyTransfer pays the platform and royalty fees,
\* creatorTransfer the platform and creator fees and flashTransfer the
\* platform fee, each to its wallet, and the recipient gets the amount minus
\* exactly those fees; nothing goes to anyone else.
C17_SingleFlowFees ==
    \A feeType \in {"RoyaltyTransfer", "CreatorTransfer", "FlashTransfer"},
       caller \in LabCallers, recipient \in {LabUser}, amount \in FlowAmounts :
        LET r == flowCall(feeType, caller, recipient, amount, Zero, <<>>, <<>>)
            config == labFees[feeType]
            platformFee == FeeOf(amount, config.platformFeeBps)
            creatorFee == IF feeType = "CreatorTransfer"
                          THEN FeeOf(amount, config.creatorFeeBps) ELSE 0
            royaltyFee == IF feeType = "RoyaltyTransfer"
                          THEN FeeOf(amount, config.royaltyFeeBps) ELSE 0
        IN  r.status = "ok" =>
                /\ r.breakdown.platformFee = platformFee
                /\ r.breakdown.creatorFee = creatorFee
                /\ r.breakdown.royaltyFee = royaltyFee
                /\ r.breakdown.referrerFee = 0
                /\ r.breakdown.netAmount = amount - platformFee - creatorFee - royaltyFee
                /\ MovedExactly(r, caller,
                      {Credit("platform", labWallets.platformWallet, platformFee),
                       Credit("creator", labWallets.creatorWallet, creatorFee),
                       Credit("royalty", labWallets.royaltyWallet, royaltyFee),
                       Credit("net", recipient,
                              amount - platformFee - creatorFee - royaltyFee)})

\* C17 witness: a royaltyTransfer charged the platform and the royalty fee and
\* no creator fee, although creator and referrer bps are stored for its type.
C17_Witness ==
    /\ labLast.call = "RoyaltyTransfer"
    /\ labLast.status = "ok"
    /\ labFees["RoyaltyTransfer"].creatorFeeBps > 0
    /\ labFees["RoyaltyTransfer"].referrerFeeBps > 0
    /\ labLast.platformFee > 0 /\ labLast.royaltyFee > 0
    /\ labLast.creatorFee = 0 /\ labLast.referrerFee = 0
    /\ labLast.netAmount = labLast.amount - labLast.platformFee - labLast.royaltyFee

\* Payee lists handed to superRoyaltyTransfer: well-formed ones, and ones with
\* lengths that differ, a zero payee, or more than 10000 bps.
SuperPayees ==
    LabPayees \cup
        {<<<<LabUser, royaltyWallet, LabAdmin>>, <<3333, 3333, 3334>>>>,
         <<<<royaltyWallet>>, <<1>>>>,
         <<<<LabUser, LabUser>>, <<5000, 5000>>>>,
         <<<<LabUser>>, <<1, 2>>>>,
         <<<<LabUser, Zero>>, <<1, 2>>>>,
         <<<<LabUser, royaltyWallet>>, <<5000, 5001>>>>}

WellFormed(p) ==
    /\ Len(p[1]) = Len(p[2])
    /\ \A i \in 1..Len(p[1]) : p[1][i] # Zero
    /\ sumBps(p[2]) <= 10000

\* C18: in a successful superRoyaltyTransfer payee i receives
\* floor(netAmount * basisPoints[i] / 10000) and the recipient netAmount minus
\* those payouts, which is never negative; lists of different lengths, a zero
\* payee or basis points above 10000 in sum revert with no balance changed.
C18_SuperRoyaltySplit ==
    \A caller \in LabCallers, recipient \in {LabUser}, amount \in FlowAmounts,
       p \in SuperPayees :
        LET r == flowCall("SuperRoyaltyTransfer", caller, recipient, amount, Zero,
                          p[1], p[2])
            config == labFees["SuperRoyaltyTransfer"]
            platformFee == FeeOf(amount, config.platformFeeBps)
            creatorFee == FeeOf(amount, config.creatorFeeBps)
            royaltyFee == FeeOf(amount, config.royaltyFeeBps)
            netAmount == amount - platformFee - creatorFee - royaltyFee
            payouts == {Credit(<<"payee", i>>, p[1][i], FeeOf(netAmount, p[2][i])) :
                           i \in 1..Len(p[1])}
        IN  /\ r.status # "Panic"
            /\ ~WellFormed(p) => (r.status # "ok" /\ r.balance = labBalance)
            /\ r.status = "ok" =>
                  /\ r.breakdown.netAmount = netAmount
                  /\ SumCredits(payouts) <= netAmount
                  /\ MovedExactly(r, caller,
                        payouts \cup
                          {Credit(<<"platform", 0>>, labWallets.platformWallet, platformFee),
                           Credit(<<"creator", 0>>, labWallets.creatorWallet, creatorFee),
                           Credit(<<"royalty", 0>>, labWallets.royaltyWallet, royaltyFee),
                           Credit(<<"rest", 0>>, recipient, netAmount - SumCredits(payouts))})

\* C18 witness: a superRoyaltyTransfer of 1005 with fees of 60 paid 314 to
\* each of its two payees of 3333 bps and the remaining 317 to the recipient.
C18_Witness ==
    /\ labLast.call = "SuperRoyaltyTransfer"
    /\ labLast.status = "ok"
    /\ labLast.netAmount = 945
    /\ labBalance[royaltyWallet] = 30 + 314
    /\ labBalance[LabUser] = 314 + 317

\* C19: a successful slotBuy(recipient, amount, referrer) pays
\* floor(amount * bps / 10000) of the SlotBuy configuration to each of the
\* three wallets, the referrer fee to the referrer only when the referrer is
\* not the zero address, and the amount minus the fees charged to the recipient.
C19_SlotBuyFees ==
    \A caller \in LabCallers, recipient \in {LabUser},
       referrer \in {Zero, LabUser, royaltyWallet}, amount \in FlowAmounts :
        LET r == flowCall("SlotBuy", caller, recipient, amount, referrer,
                          <<>>, <<>>)
            config == labFees["SlotBuy"]
            platformFee == FeeOf(amount, config.platformFeeBps)
            creatorFee == FeeOf(amount, config.creatorFeeBps)
            royaltyFee == FeeOf(amount, config.royaltyFeeBps)
            referrerFee == IF referrer = Zero THEN 0
                           ELSE FeeOf(amount, config.referrerFeeBps)
        IN  r.status = "ok" =>
                /\ r.breakdown.referrerFee = referrerFee
                /\ MovedExactly(r, caller,
                      {Credit("platform", labWallets.platformWallet, platformFee),
                       Credit("creator", labWallets.creatorWallet, creatorFee),
                       Credit("royalty", labWallets.royaltyWallet, royaltyFee),
                       Credit("net", recipient,
                              amount - platformFee - creatorFee - royaltyFee
                                - referrerFee)}
                      \cup (IF referrer = Zero THEN {}
                            ELSE {Credit("referrer", referrer, referrerFee)}))

\* C19 witness: a slotBuy with the zero referrer, under a configuration with a
\* referrer fee, left that fee in the recipient's net amount.
C19_Witness ==
    /\ labLast.call = "SlotBuy"
    /\ labLast.status = "ok"
    /\ labLast.referrer = Zero
    /\ labFees["SlotBuy"].referrerFeeBps = 400
    /\ labLast.referrerFee = 0
    /\ labLast.netAmount = labLast.amount - 60
    /\ labBalance[LabUser] = 945

C21_InvalidInputIs400 ==
    \A route \in AdminRoutes \cup OpenRoutes \cup ParamRoutes,
       wraps \in BOOLEAN, outcome \in ServiceOutcomes :
        LET answer == respond(route, apiKeyAdmin, FALSE, wraps, outcome)
        IN  /\ ~answer.called
            /\ apiHits < RATE_LIMIT_MAX => answer.status = 400

\* Values an errorHandler can be handed.
ErrorValues ==
    {HttpError(400, "Invalid address"), HttpError(401, "Unauthorized"),
     HttpError(500, "LABToken address is missing")}
      \cup {thrown(outcome) : outcome \in ServiceOutcomes \ {"ok"}}
      \cup {[kind |-> "object", status |-> 0, code |-> code, message |-> "m"] :
               code \in {"", "CALL_EXCEPTION", "ACTION_REJECTED", "TIMEOUT"}}
      \cup {[kind |-> "Error", status |-> 0, code |-> "TIMEOUT", message |-> "slow"]}

\* C22: errorHandler sends exactly one response for every error: an HttpError
\* gets its own status, otherwise a code of CALL_EXCEPTION or ACTION_REJECTED
\* gets 400 with the message, otherwise an Error gets 500 with its message,
\* and anything else 500 with 'Unknown error'; every failed request got one
\* response.
C22_OneErrorResponse ==
    /\ \A err \in ErrorValues :
          LET sent == errorHandler(err)
              reverted == err.kind \in {"Error", "object"}
                            /\ err.code \in {"CALL_EXCEPTION", "ACTION_REJECTED"}
          IN  /\ Len(sent) = 1
              /\ err.kind = "HttpError" =>
                    sent[1] = Response(err.status, err.message)
              /\ (err.kind # "HttpError" /\ reverted) =>
                    sent[1] = Response(400, err.message)
              /\ (err.kind = "Error" /\ ~reverted) =>
                    sent[1] = Response(500, err.message)
              /\ (err.kind \in {"object", "value"} /\ ~reverted) =>
                    sent[1] = Response(500, "Unknown error")
    /\ apiResponse.status >= 400 => apiResponse.sent = 1

\* C22 witness: the service failed with CALL_EXCEPTION and the request was
\* answered once, 400 with the message of the error.
C22_Witness ==
    /\ apiResponse.called
    /\ apiResponse.status = 400
    /\ apiResponse.error = "execution reverted"
    /\ apiResponse.sent = 1

\* The last purchase was made by the sponsor's 1st or 3rd direct, and the
\* sponsor has no referrer.
SpillsWithoutReferrer ==
    /\ last.status = "ok"
    /\ PositionOf(last.buyer, last.sponsor) \in {1, 3}
    /\ referrerOf[last.sponsor] = Zero

\* What the transfers of a receipt pay to `account`.
PaidTo(receipt, account) ==
    sumAmounts(SelectSeq(receipt.transfers, LAMBDA t : t.to = account))

UplineToFlash ==
    SpillsWithoutReferrer =>
        /\ last.transfers[UplineTransfer(last)].to = flashWallet
        /\ last.transfers[UplineTransfer(last)].amount =
              (last.price * UPLINE_BPS) \div BPS

FlashGetsEightyFivePercent ==
    (SpillsWithoutReferrer /\ \A i \in 1..Len(last.transfers) :
                                  last.transfers[i].kind # "royalty") =>
        PaidTo(last, flashWallet) * 100 = last.price * 85

\* C23: when the buyer is the sponsor's 1st or 3rd direct and the sponsor has
\* no referrer, the 70% upline share of a successful slotBuy is paid to
\* flashWallet; when in addition no royalty is paid, flashWallet receives 85%
\* of the price.
C23_SpillToFlashWallet == UplineToFlash /\ FlashGetsEightyFivePercent

\* C24: registeredAllowance[u] changes only in a step that is u's
\* registerApproval, which writes u's current allowance and the current block
\* and moves no USDT and buys nothing; so a purchase leaves every snapshot,
\* the buyer's included, as the last registerApproval wrote it.
C24_SnapshotOnlyRegistered ==
    [][\A u \in Users :
          registeredAllowance'[u] # registeredAllowance[u] =>
              /\ allowance[u] # 0
              /\ registeredAllowance'[u] =
                    [allowance |-> allowance[u], blockNum |-> blockNumber]
              /\ \A v \in Users \ {u} :
                    registeredAllowance'[v] = registeredAllowance[v]
              /\ UNCHANGED <<balanceOf, allowance, last, referrerOf, childrenOf,
                             userSlot, qualifiedDirects, directMaxSlot>>]_vars

\* C24 witness: after a purchase the buyer's ERC20 allowance has gone down by
\* the price while the registered snapshot still holds what was registered.
C24_Witness ==
    /\ last.status = "ok"
    /\ registeredAllowance[last.buyer].allowance >= last.price
    /\ registeredAllowance[last.buyer].blockNum < blockNumber
    /\ allowance[last.buyer] < registeredAllowance[last.buyer].allowance

\* Wallet triples of which at least one is the zero address.
ZeroWalletChoices ==
    {w \in ({Zero} \cup LabAccounts) \X {Zero, labCreatorWallet} \X {Zero, royaltyWallet} :
        Zero \in {w[1], w[2], w[3]}}

\* C25: the three fee wallets are never the zero address: the constructor and
\* setFeeWallets refuse a zero address for any of them, a refused
\* setFeeWallets leaves the three as they were, and every flow refuses a zero
\* recipient (slotBuy, the token not being paused, with "Recipient is zero").
C25_WalletsNeverZero ==
    /\ labWallets.platformWallet # Zero
    /\ labWallets.creatorWallet # Zero
    /\ labWallets.royaltyWallet # Zero
    /\ \A w \in ZeroWalletChoices :
          /\ labConstructor(LabSupply, w[1], w[2], w[3], LabAdmin).status # "ok"
          /\ \A caller \in LabCallers :
                LET r == setFeeWalletsCall(caller, w[1], w[2], w[3])
                IN  r.status # "ok" /\ r.wallets = labWallets
    /\ \A caller \in LabCallers, w \in WalletChoices :
          LET r == setFeeWalletsCall(caller, w[1], w[2], w[3])
          IN  r.status # "ok" => r.wallets = labWallets
    /\ \A feeType \in FeeTypes, caller \in LabCallers, amount \in LabAmounts,
          referrer \in {Zero, LabUser} :
          LET r == flowCall(feeType, caller, Zero, amount, referrer, <<>>, <<>>)
          IN  /\ r.status # "ok"
              /\ r.balance = labBalance
              /\ (feeType = "SlotBuy" /\ ~labPaused) => r.status = "Recipient is zero"

\* C25 witness: a fee manager's setFeeWallets with a zero royalty wallet was
\* refused after the platform wallet had been changed, and the changed wallets
\* are still stored.
C25_Witness ==
    /\ labLast.call = "setFeeWallets"
    /\ labLast.status = "Royalty wallet is zero"
    /\ labWallets = FeeWallets(LabUser, labCreatorWallet, royaltyWallet)

\* C26: every slotBuy that passes the slot, sponsor, allowance, block and
\* balance checks terminates: at each royalty level the walk up referrerOf
\* from the sponsor comes to a qualifying address or to the zero address, also
\* when the buyer names themself or a descendant as sponsor.
C26_SlotBuyTerminates ==
    \A buyer \in Callers, slotId \in SlotIds, sponsor \in Sponsors :
        LET r == slotBuyCall(buyer, slotId, sponsor)
            reg == _registerReferral(buyer, sponsor, slotId)
        IN  (ReachesReferral(buyer, slotId, sponsor) /\ ~reg.reverted) =>
                /\ r.status # "OutOfGas"
                /\ \A level \in RoyaltyLevels :
                      royaltyWalk(sponsor, level, reg.referrerOf, reg.userSlot,
                                  reg.qualifiedDirects, NumUsers) \in {Zero} \cup Users

\* The sum of the transfers of one kind in a receipt.
PaidAs(transfers, kind) ==
    sumAmounts(SelectSeq(transfers, LAMBDA t : t.kind = kind))

\* C27: a slotBuy never sends out more than the price it pulled: the
\* royalties are at most floor(price * 1500 / 10000), so the leftovers
\* subtraction does not underflow and no transfer fails for lack of funds, and
\* the distributor holds after the call at least what it held before.
C27_OutflowWithinPrice ==
    \A buyer \in RoyaltyCallers, slotId \in Levels, sponsor \in RoyaltySponsors :
        LET r == slotBuyCall(buyer, slotId, sponsor)
            price == SLOT_PRICE(slotId)
        IN  /\ r.status \notin {"Panic", "ERC20InsufficientBalance"}
            /\ r.status = "ok" =>
                  /\ PaidAs(r.transfers, "royalty") <= (price * 1500) \div 10000
                  /\ PaidAs(r.transfers, "royalty") + PaidAs(r.transfers, "leftovers")
                        = (price * 1500) \div 10000
                  /\ sumAmounts(r.transfers) <= price
                  /\ r.balanceOf[Distributor] >= balanceOf[Distributor]
                  /\ r.balanceOf[Distributor] =
                        balanceOf[Distributor] + price - sumAmounts(r.transfers)

\* C27 witness: a purchase paid the royalties of all seven levels, 15% of the
\* price, while the USDT the distributor held before is still there.
C27_Witness ==
    /\ last.status = "ok"
    /\ PaidAs(last.transfers, "royalty") = (last.price * 1500) \div 10000
    /\ PaidAs(last.transfers, "royalty") > 0
    /\ balanceOf[Distributor] = DonatedAmount

\* Every royalty transfer of the list goes to an address that, in the storage
\* given, has a slot of at least the transfer's level and at least 4
\* qualified directs at it.
RecipientsQualify(transfers, slot, directs) ==
    \A i \in 1..Len(transfers) :
        transfers[i].kind = "royalty" =>
            /\ transfers[i].to \in Users
            /\ slot[transfers[i].to] >= transfers[i].level
            /\ directs[transfers[i].to][transfers[i].level] >= 4

\* C28: no royalty share of level L is paid to an address whose own userSlot
\* is below L or that has fewer than 4 qualified directs at L, in the storage
\* as the purchase being processed leaves it.
C28_RoyaltyRecipientsQualify ==
    /\ last.status = "ok" =>
          RecipientsQualify(last.transfers, userSlot, qualifiedDirects)
    /\ \A buyer \in RoyaltyCallers, slotId \in {FIRST_ROYALTY_LEVEL, LAST_ROYALTY_LEVEL},
          sponsor \in RoyaltySponsors :
          LET r == slotBuyCall(buyer, slotId, sponsor)
          IN  r.status = "ok" =>
                  RecipientsQualify(r.transfers, r.userSlot, r.qualifiedDirects)

\* C28 witness: the purchase of the sponsor's 4th direct is the one that
\* brought the sponsor to 4 qualified directs, and it paid the sponsor the
\* royalty of the last level.
C28_Witness ==
    /\ last.status = "ok"
    /\ PositionOf(last.buyer, last.sponsor) = 4
    /\ qualifiedDirects[last.sponsor][LAST_ROYALTY_LEVEL] = 4
    /\ directMaxSlot[last.sponsor][last.buyer] = last.slotId
    /\ \E t \in TransfersOf(last, "royalty") :
          t.to = last.sponsor /\ t.level = LAST_ROYALTY_LEVEL

RECURSIVE SumOver(_, _)
SumOver(bal, accounts) ==
    IF accounts = {} THEN 0
    ELSE LET a == CHOOSE x \in accounts : TRUE
         IN  bal[a] + SumOver(bal, accounts \ {a})

ConservedPayees ==
    LabPayees \cup {<<<<labCreatorWallet, royaltyWallet>>, <<1, 9999>>>>}

Range(seq) == {seq[i] : i \in 1..Len(seq)}

\* C29: every successful fee-routing flow conserves tokens: the sum of all
\* balances stays equal to totalSupply, which no flow changes, and a caller
\* who is not the recipient, a payee, the referrer or a fee wallet ends with
\* exactly `amount` less.
C29_FlowsConserveTokens ==
    /\ SumOver(labBalance, LabAccounts) = labTotalSupply
    /\ labTotalSupply = LabSupply
    /\ \A feeType \in FeeTypes, caller \in LabCallers, amount \in FlowAmounts,
          referrer \in {Zero, royaltyWallet} :
       \A p \in (IF feeType = "SuperRoyaltyTransfer" THEN ConservedPayees
                 ELSE {<<<<>>, <<>>>>}) :
          LET recipient == LabUser
              r == flowCall(feeType, caller, recipient, amount, referrer,
                            p[1], p[2])
              others == {recipient, referrer, labWallets.platformWallet,
                         labWallets.creatorWallet, labWallets.royaltyWallet}
                          \cup Range(p[1])
          IN  r.status = "ok" =>
                  /\ SumOver(r.balance, LabAccounts) = SumOver(labBalance, LabAccounts)
                  /\ \A a \in LabAccounts : r.balance[a] >= 0
                  /\ caller \notin others =>
                        r.balance[caller] = labBalance[caller] - amount

\* C29 witness: a superRoyaltyTransfer of the whole supply by the admin left
\* the admin with nothing and the supply spread over the other accounts.
C29_Witness ==
    /\ labLast.call = "SuperRoyaltyTransfer"
    /\ labLast.status = "ok"
    /\ labLast.amount = LabSupply
    /\ labBalance[LabAdmin] = 0
    /\ labBalance[LabUser] > 0
    /\ labBalance[royaltyWallet] > 0
    /\ SumOver(labBalance, LabAccounts) = labTotalSupply

\* Fee configurations with non-negative integer components, around the caps
\* and past the width of the contract's fields.
SchemaBps == {0, 1, 500, 501, 1000, 1001, UINT16_MAX + 1}
SchemaConfigs ==
    {FeeConfig(p, c, r, f) : p \in SchemaBps, c \in SchemaBps, r \in SchemaBps,
                             f \in SchemaBps}

TooHighReasons ==
    {"Platform fee too high", "Creator fee too high", "Royalty fee too high",
     "Referrer fee too high", "Combined fees too high"}

\* C30: on configurations with non-negative integer components the backend's
\* schema accepts exactly what the contract accepts: every component and the
\* sum at most 1000; so a setFees the backend let through does not revert
\* with a "... fee too high" or "Combined fees too high" reason.
C30_FeeValidationAgrees ==
    \A config \in SchemaConfigs :
        LET accepted == feeConfigSchema(config) = "ok"
            within == /\ config.platformFeeBps <= 1000
                      /\ config.creatorFeeBps <= 1000
                      /\ config.royaltyFeeBps <= 1000
                      /\ config.referrerFeeBps <= 1000
                      /\ config.platformFeeBps + config.creatorFeeBps
                           + config.royaltyFeeBps + config.referrerFeeBps <= 1000
        IN  /\ accepted <=> within
            /\ accepted <=> setFeesEncoded(config) = "ok"
            /\ accepted =>
                  \A caller \in LabCallers :
                      setFeesCall(caller, "FlashTransfer", config).status
                          \notin TooHighReasons

\* C30 witness: a configuration the backend's schema accepts was stored by
\* setFees, and one it rejects is refused by the contract in this state.
C30_Witness ==
    /\ labLast.call = "setFees"
    /\ labLast.status = "ok"
    /\ labFees["FlashTransfer"] = FeeConfig(100, 0, 0, 0)
    /\ feeConfigSchema(labFees["FlashTransfer"]) = "ok"
    /\ feeConfigSchema(FeeConfig(1001, 0, 0, 0)) # "ok"
    /\ setFeesCall(LabAdmin, "FlashTransfer", FeeConfig(1001, 0, 0, 0)).status
          = "Platform fee too high"

====
